---- MODULE Spec2Model ----
(***************************************************************************)
(* BrainPrint: the per-subject computation of the shape descriptors, the   *)
(* lateral asymmetry step and the mesh cleaning step.                      *)
(*                                                                         *)
(* Three generations of the pipeline live side by side in the repository:  *)
(*   "legacy"   src/brainprint/brainprint.py      (_compute_brainprint,    *)
(*              _compute_asymmetry without a NaN test)                     *)
(*   "refactor" src/src/brainprint/brainprint.py  (adds orient_ and the    *)
(*              NaN test in _compute_asymmetry)                            *)
(*   "current"  src/brainprint/surfaces.py and src/brainprint/asymmetry.py *)
(*              (label table of create_aseg_surfaces, compute_asymmetry)   *)
(*                                                                         *)
(* Floating point values are records [kind, val]: a finite number, the     *)
(* float nan, an infinity (val is its sign) or the Python string 'NaN'.    *)
(***************************************************************************)
EXTENDS Integers, Sequences, FiniteSets, TLC

\* ------------------------------------------------------------------ bounds
\* largest requested eigenvalue count (options["num"])
MaxNum == 2
\* how many structures of one run the environment may disturb (a call that
\* raises, a non-finite eigenvalue, a mesh that is not oriented)
NumDeviant == 2
\* how many times the public asymmetry function is called on a returned table
MaxCalls == 2
\* most vertices of a raw mesh handed to the cleaning step
MaxVertices == 6
\* most triangles of a raw mesh handed to the cleaning step
MaxTrias == 2
\* how many times in a row the cleaning step is applied to a mesh
MaxPasses == 2
\* number of voxels of a labeled volume
NumVoxels == 3
\* largest label code of a labeled volume
MaxLabel == 2
MaxEvals == 2

\* ------------------------------------------------------------------ values
Num(n) == [kind |-> "num", val |-> n]
FloatNaN == [kind |-> "nan", val |-> 0]
PosInf == [kind |-> "inf", val |-> 1]
NegInf == [kind |-> "inf", val |-> -1]
\* the Python string 'NaN'
StrNaN == [kind |-> "str", val |-> 0]

IsFloat(x) == x.kind \in {"num", "nan", "inf"}

\* x * f for a finite factor f > 0
Scale(x, f) == IF x.kind = "num" THEN Num(x.val * f) ELSE x

\* x / d for a finite divisor d > 0 (the model's eigenvalues are multiples of
\* their index, so the quotient is exact)
Quot(x, d) == IF x.kind = "num" THEN Num(x.val \div d) ELSE x

\* IEEE x - y
Sub(x, y) ==
  IF x.kind = "nan" \/ y.kind = "nan" THEN FloatNaN
  ELSE IF x.kind = "inf" /\ y.kind = "inf"
       THEN IF x.val = y.val THEN FloatNaN ELSE x
  ELSE IF x.kind = "inf" THEN x
  ELSE IF y.kind = "inf" THEN [kind |-> "inf", val |-> 0 - y.val]
  ELSE Num(x.val - y.val)

\* Python's  x >= 0  on a float
GeZero(x) ==
  CASE x.kind = "num" -> x.val >= 0
    [] x.kind = "inf" -> x.val > 0
    [] OTHER -> FALSE

RECURSIVE ISqrtFrom(_, _)
ISqrtFrom(n, r) == IF (r + 1) * (r + 1) > n THEN r ELSE ISqrtFrom(n, r + 1)
\* square root, rounded down to the model's integer grid
ISqrt(n) == ISqrtFrom(n, 0)

RECURSIVE SumSq(_)
SumSq(v) == IF v = <<>> THEN 0 ELSE Head(v).val * Head(v).val + SumSq(Tail(v))

\* v[2:] of Python: drop the first two entries
Slice2(v) == IF Len(v) <= 2 THEN <<>> ELSE SubSeq(v, 3, Len(v))

\* ------------------------------------------------------------------ tables
\* keys of aseg_labels in _compute_brainprint, in insertion order
aseg_labels ==
  << "CorpusCallosum", "Cerebellum", "Ventricles", "3rd-Ventricle",
     "4th-Ventricle", "Brain-Stem", "Left-Striatum", "Left-Lateral-Ventricle",
     "Left-Cerebellum-White-Matter", "Left-Cerebellum-Cortex",
     "Left-Thalamus-Proper", "Left-Caudate", "Left-Putamen", "Left-Pallidum",
     "Left-Hippocampus", "Left-Amygdala", "Left-Accumbens-area",
     "Left-VentralDC", "Right-Striatum", "Right-Lateral-Ventricle",
     "Right-Cerebellum-White-Matter", "Right-Cerebellum-Cortex",
     "Right-Thalamus-Proper", "Right-Caudate", "Right-Putamen",
     "Right-Pallidum", "Right-Hippocampus", "Right-Amygdala",
     "Right-Accumbens-area", "Right-VentralDC" >>

\* keys of aseg_labels in surfaces.create_aseg_surfaces, in insertion order
aseg_labels_surfaces ==
  << "CorpusCallosum", "Cerebellum", "3rd-Ventricle", "4th-Ventricle",
     "Brain-Stem", "Left-Lateral-Ventricle", "Left-Cerebellum",
     "Left-Thalamus-Proper", "Left-Caudate", "Left-Putamen", "Left-Pallidum",
     "Left-Hippocampus", "Left-Amygdala", "Left-Accumbens-area",
     "Left-VentralDC", "Right-Lateral-Ventricle", "Right-Cerebellum",
     "Right-Thalamus-Proper", "Right-Caudate", "Right-Putamen",
     "Right-Pallidum", "Right-Hippocampus", "Right-Amygdala",
     "Right-Accumbens-area", "Right-VentralDC" >>

\* keys of cortical_labels, in insertion order
cortical_labels == << "lh-white-2d", "rh-white-2d", "lh-pial-2d", "rh-pial-2d" >>

\* the list literal structures_left_right, rebuilt by every call
structures_left_right ==
  << <<"Left-Striatum", "Right-Striatum">>,
     <<"Left-Lateral-Ventricle", "Right-Lateral-Ventricle">>,
     <<"Left-Cerebellum-White-Matter", "Right-Cerebellum-White-Matter">>,
     <<"Left-Cerebellum-Cortex", "Right-Cerebellum-Cortex">>,
     <<"Left-Thalamus-Proper", "Right-Thalamus-Proper">>,
     <<"Left-Caudate", "Right-Caudate">>,
     <<"Left-Putamen", "Right-Putamen">>,
     <<"Left-Pallidum", "Right-Pallidum">>,
     <<"Left-Hippocampus", "Right-Hippocampus">>,
     <<"Left-Amygdala", "Right-Amygdala">>,
     <<"Left-Accumbens-area", "Right-Accumbens-area">>,
     <<"Left-VentralDC", "Right-VentralDC">> >>

\* the list literal cortex_2d_left_right
cortex_2d_left_right ==
  << <<"lh-white-2d", "rh-white-2d">>, <<"lh-pial-2d", "rh-pial-2d">> >>

Range(seq) == {seq[i] : i \in 1..Len(seq)}

\* every structure name of the repository, in a fixed order
AllStructures ==
  aseg_labels \o << "Left-Cerebellum", "Right-Cerebellum" >> \o cortical_labels

IdxMap ==
  [s \in Range(AllStructures) |->
     CHOOSE i \in 1..Len(AllStructures) : AllStructures[i] = s]

Idx(s) == IdxMap[s]

\* the structures the environment may disturb, the first NumDeviant of: the two
\* members of one lateral pair (the right one is the last aseg structure, the
\* cortical surfaces come after it), a cortical surface, the first structure
\* of the tables
DeviantOrder ==
  << "Right-VentralDC", "Left-VentralDC", "lh-pial-2d", "CorpusCallosum" >>

DeviantStructures ==
  {DeviantOrder[i] : i \in {j \in 1..Len(DeviantOrder) : j <= NumDeviant}}

Versions == {"legacy", "refactor", "current"}
Norms == {"none", "surface", "volume", "geometry"}

\* ------------------------------------------------------------------ subject
\* The meshes of the modelled subject: area, cube root of the enclosed volume
\* and Laplace-Beltrami eigenvalues differ from structure to structure.
MeshArea(s) == 1 + (Idx(s) % 3)
MeshVolRoot(s) == 1 + (Idx(s) % 2)
MeshVolume(s) == MeshVolRoot(s) * MeshVolRoot(s) * MeshVolRoot(s)
EvBase(s) == 1 + ((Idx(s) * Idx(s)) % 5)

\* what the eigen solver may return in its last eigenvalue
Quirks == {"finite", "nan", "inf", "-inf"}

QuirkValue(q, x) ==
  CASE q = "nan" -> FloatNaN
    [] q = "inf" -> PosInf
    [] q = "-inf" -> NegInf
    [] OTHER -> x

\* ShapeDNA.compute_shapedna(tria, k)["Eigenvalues"]: k ascending values, the
\* first one 0 (closed mesh)
SolverEigenvalues(s, k, q) ==
  [i \in 1..k |->
     IF i = k THEN QuirkValue(q, Num((i - 1) * (EvBase(s) + i - 1)))
     ELSE Num((i - 1) * (EvBase(s) + i - 1))]

\* ------------------------------------------------------------------ per structure
\* ['NaN'] * options["num"]: as many sentinels as eigenvalues, none for area
\* and volume
NaNVector_short(num) == [i \in 1..num |-> StrNaN]

\* ['NaN'] * (options["num"] + 2)
NaNVector(num) == [i \in 1..(num + 2) |-> StrNaN]

\* ShapeDNA.normalize_ev(geom=tria, evals, method): a triangle mesh is scaled
\* by its area for "surface" and "geometry", by volume^(2/3) for "volume"
normalize_ev(s, evals, method) ==
  IF method = "volume"
  THEN [i \in 1..Len(evals) |-> Scale(evals[i], MeshVolRoot(s) * MeshVolRoot(s))]
  ELSE [i \in 1..Len(evals) |-> Scale(evals[i], MeshArea(s))]

\* ShapeDNA.reweight_ev(evals): evals[1:] / arange(1, len(evals))
reweight_ev(evals) ==
  [i \in 1..Len(evals) |-> IF i = 1 THEN evals[i] ELSE Quot(evals[i], i - 1)]

\* the "normalize" and "reweight" blocks of the try body
apply_eigenvalues_options(s, evals, norm, rwt) ==
  LET normed == IF norm \in {"surface", "volume", "geometry"}
                THEN normalize_ev(s, evals, norm) ELSE evals
  IN IF rwt THEN reweight_ev(normed) ELSE normed

\* np.concatenate((area, volume, evals))
prepend_area_volume(s, evals) == << Num(MeshArea(s)), Num(MeshVolume(s)) >> \o evals

\* What one structure's processing is given by its environment: whether the
\* mesh read from disk is consistently oriented, what the solver returns, and
\* whether a call raises, of which class, before or after evMat[s] is bound.
plain_input == [oriented |-> TRUE, quirk |-> "finite", raises |-> "none", kind |-> "none"]

StructureInputs ==
  {plain_input}
  \cup {[oriented |-> FALSE, quirk |-> "finite", raises |-> "none", kind |-> "none"]}
  \cup {[oriented |-> TRUE, quirk |-> q, raises |-> "none", kind |-> "none"] :
          q \in Quirks \ {"finite"}}
  \cup {[oriented |-> TRUE, quirk |-> "finite", raises |-> w, kind |-> k] :
          w \in {"before", "after"}, k \in {"CalledProcessError", "Other"}}

\* what the structures of the current generation are given in the model: the
\* plain case, a call that raises, a solver that returns nan
StructureInputsCurrent ==
  {plain_input,
   [oriented |-> TRUE, quirk |-> "finite", raises |-> "before", kind |-> "Other"],
   [oriented |-> TRUE, quirk |-> "nan", raises |-> "none", kind |-> "none"]}

\* the try body with the reweight block before the normalize block
try_steps_reweight_first(ver) ==
  IF ver = "legacy"
  THEN << "import_vtk", "compute_shapedna", "reweight", "normalize", "prepend" >>
  ELSE << "import_vtk", "compute_shapedna", "orient", "reweight", "normalize",
          "prepend" >>

\* The statements of the try body of _compute_brainprint in program order;
\* "orient if necessary" exists in src/src only.
try_steps(ver) ==
  IF ver = "legacy"
  THEN << "import_vtk", "compute_shapedna", "normalize", "reweight", "prepend" >>
  ELSE << "import_vtk", "compute_shapedna", "orient", "normalize", "reweight",
          "prepend" >>

\* The try body before its first statement: the mesh tria is not read yet,
\* evMat[s] is not bound, no exception is raised, no call was made.
try_entry ==
  [oriented |-> FALSE, assigned |-> FALSE, value |-> << >>,
   exception |-> "none", log |-> << >>]

\* one call of the try body: its name, tria.is_oriented() when it is made,
\* the eigenvalues it is given
Call(st, name) == [call |-> name, oriented |-> st.oriented, evals |-> st.value]

\* One statement of the try body for structure s, from the state st of the
\* body.  tria.volume(), called by normalize_ev(method="volume") and by the
\* concatenation, raises ValueError on a mesh that is not oriented.
try_step(st, step, opt, s, inp) ==
  CASE step = "import_vtk" ->
         IF inp.raises = "before"
         THEN [st EXCEPT !.exception = inp.kind,
                         !.log = Append(@, Call(st, "import_vtk"))]
         ELSE [st EXCEPT !.oriented = inp.oriented,
                         !.log = Append(@, Call(st, "import_vtk"))]
    [] step = "compute_shapedna" ->
         [st EXCEPT !.assigned = TRUE,
                    !.value = SolverEigenvalues(s, opt.num, inp.quirk),
                    !.exception = IF inp.raises = "after" THEN inp.kind ELSE "none",
                    !.log = Append(@, Call(st, "compute_shapedna"))]
    [] step = "orient" ->
         IF st.oriented THEN st
         ELSE [st EXCEPT !.oriented = TRUE, !.log = Append(@, Call(st, "orient_"))]
    [] step = "normalize" ->
         IF opt.norm \notin {"surface", "volume", "geometry"} THEN st
         ELSE IF opt.norm = "volume" /\ ~st.oriented
         THEN [st EXCEPT !.exception = "Other",
                         !.log = Append(@, Call(st, "normalize_ev"))]
         ELSE [st EXCEPT !.value = normalize_ev(s, st.value, opt.norm),
                         !.log = Append(@, Call(st, "normalize_ev"))]
    [] step = "reweight" ->
         IF ~opt.rwt THEN st
         ELSE [st EXCEPT !.value = reweight_ev(st.value),
                         !.log = Append(@, Call(st, "reweight_ev"))]
    [] OTHER ->
         IF ~st.oriented
         THEN [st EXCEPT !.exception = "Other",
                         !.log = @ \o << Call(st, "area"), Call(st, "volume") >>]
         ELSE [st EXCEPT !.value = prepend_area_volume(s, st.value),
                         !.log = @ \o << Call(st, "area"), Call(st, "volume") >>]

\* the statements are run in order until one of them raises
RECURSIVE try_run(_, _, _, _, _)
try_run(st, steps, opt, s, inp) ==
  IF steps = << >> \/ st.exception # "none" THEN st
  ELSE try_run(try_step(st, Head(steps), opt, s, inp), Tail(steps), opt, s, inp)

\* The body of the try statement of _compute_brainprint for structure s:
\* assigned tells whether evMat[s] was bound, value is what it is bound to
\* when the body is left, exception is what leaves the body, log is the
\* calls the body made.
try_body(ver, opt, s, inp) ==
  LET r == try_run(try_entry, try_steps(ver), opt, s, inp)
  IN [assigned |-> r.assigned, value |-> r.value, exception |-> r.exception,
      log |-> r.log]

\* d with d[k] = v (dict item assignment)
Put(d, k, v) == [x \in DOMAIN d \cup {k} |-> IF x = k THEN v ELSE d[x]]

\* the except clause: only subprocess.CalledProcessError is caught
caught(exception) == exception = "CalledProcessError"

\* failed after the try statement; the flag is set before the loop and never
\* cleared inside it
failed_after(failedBefore, exception) == failedBefore \/ caught(exception)

\* the test  len(evMat[surfaces_i]) == 0 or failed
needs_nan(vec, failedNow) == Len(vec) = 0 \/ failedNow

\* ------------------------------------------------------------------ asymmetry
\* np.isnan(x).any() on a slice: "TypeError" when the slice holds strings
\* (the ufunc isnan is not defined for a string array)
isnan_any(v) ==
  IF \E i \in 1..Len(v) : v[i].kind = "str" THEN "TypeError"
  ELSE IF \E i \in 1..Len(v) : v[i].kind = "nan" THEN "true"
  ELSE "false"

RECURSIVE SumDiff(_)
SumDiff(v) == IF v = <<>> THEN 0 ELSE Head(v).val + SumDiff(Tail(v))

\* the differences summed as they are, neither squared nor rooted
compute_distance_signed(ev1, ev2) ==
  IF (\E i \in 1..Len(ev1) : ev1[i].kind = "str")
     \/ (\E i \in 1..Len(ev2) : ev2[i].kind = "str")
  THEN [exc |-> "TypeError", val |-> FloatNaN]
  ELSE LET diff == [i \in 1..Len(ev1) |-> Sub(ev1[i], ev2[i])]
       IN IF \E i \in 1..Len(diff) : diff[i].kind = "nan"
          THEN [exc |-> "none", val |-> FloatNaN]
          ELSE IF \E i \in 1..Len(diff) : diff[i].kind = "inf"
          THEN [exc |-> "none", val |-> PosInf]
          ELSE [exc |-> "none", val |-> Num(SumDiff(diff))]

\* shapedna.compute_distance(ev1, ev2, dist="euc"): the Euclidean norm of
\* ev1 - ev2; subtracting a list of strings raises TypeError
compute_distance(ev1, ev2) ==
  IF (\E i \in 1..Len(ev1) : ev1[i].kind = "str")
     \/ (\E i \in 1..Len(ev2) : ev2[i].kind = "str")
  THEN [exc |-> "TypeError", val |-> FloatNaN]
  ELSE LET diff == [i \in 1..Len(ev1) |-> Sub(ev1[i], ev2[i])]
       IN IF \E i \in 1..Len(diff) : diff[i].kind = "nan"
          THEN [exc |-> "none", val |-> FloatNaN]
          ELSE IF \E i \in 1..Len(diff) : diff[i].kind = "inf"
          THEN [exc |-> "none", val |-> PosInf]
          ELSE [exc |-> "none", val |-> Num(ISqrt(SumSq(diff)))]

\* the key  left + "_" + right
pair_key(pair) == pair[1] \o "_" \o pair[2]

\* a pair list shared by the calls: each call goes on with the list the call
\* before it ended with
fresh_structures_grown(prev) == IF prev = <<>> THEN structures_left_right ELSE prev

\* the list literal every call of the asymmetry function starts from; prev is
\* the list the previous call ended with, which a new call does not see
fresh_structures(prev) == structures_left_right

\* structures (+)= cortex_2d_left_right unless the cortex is skipped
pair_list(prev, skip_cortex) ==
  IF skip_cortex THEN fresh_structures(prev)
  ELSE fresh_structures(prev) \o cortex_2d_left_right

\* One iteration of the loop over the pairs: [exc, val].
\*   "legacy"   no NaN test, compute_distance on the two slices
\*   "refactor" isnan(left).any() or isnan(right).any(), looked up in turn
\*   "current"  both slices looked up first, then the same test
pair_distance(impl, table, pair) ==
  LET left == pair[1]
      right == pair[2]
      hasL == left \in DOMAIN table
      hasR == right \in DOMAIN table
  IN IF ~hasL THEN [exc |-> "KeyError", val |-> FloatNaN]
     ELSE IF impl = "legacy"
     THEN IF ~hasR THEN [exc |-> "KeyError", val |-> FloatNaN]
          ELSE compute_distance(Slice2(table[left]), Slice2(table[right]))
     ELSE IF impl = "current" /\ ~hasR THEN [exc |-> "KeyError", val |-> FloatNaN]
     ELSE LET nanL == isnan_any(Slice2(table[left]))
          IN IF nanL = "TypeError" THEN [exc |-> "TypeError", val |-> FloatNaN]
             ELSE IF nanL = "true" THEN [exc |-> "none", val |-> FloatNaN]
             ELSE IF ~hasR THEN [exc |-> "KeyError", val |-> FloatNaN]
             ELSE LET nanR == isnan_any(Slice2(table[right]))
                  IN IF nanR = "TypeError" THEN [exc |-> "TypeError", val |-> FloatNaN]
                     ELSE IF nanR = "true" THEN [exc |-> "none", val |-> FloatNaN]
                     ELSE compute_distance(Slice2(table[left]), Slice2(table[right]))

\* the loop over the pair list: the first exception leaves the function and
\* the partial map is lost; otherwise the map has one entry per pair
RECURSIVE asymmetry_loop(_, _, _, _)
asymmetry_loop(impl, table, pairs, dst) ==
  IF pairs = <<>> THEN [exc |-> "none", dst |-> dst]
  ELSE LET r == pair_distance(impl, table, Head(pairs))
       IN IF r.exc # "none" THEN [exc |-> r.exc, dst |-> <<>>]
          ELSE asymmetry_loop(impl, table, Tail(pairs),
                              Put(dst, pair_key(Head(pairs)), r.val))

\* compute_asymmetry / _compute_asymmetry as a whole
compute_asymmetry(impl, table, pairs) == asymmetry_loop(impl, table, pairs, <<>>)

\* ------------------------------------------------------------------ mesh cleaning
\* Meshes are a vertex count v (vertices 0 .. v-1) and a sequence t of
\* triangles, each a triple of vertex indices.
Vertices(v) == 0..(v - 1)

\* the vertices of triangle tri
Corners(tri) == {tri[1], tri[2], tri[3]}

\* TriaMesh.adj_sym along one step: S and every vertex sharing a triangle
\* with a vertex of S
Neighbours(t, S) ==
  S \cup UNION {Corners(t[k]) : k \in {k \in 1..Len(t) : Corners(t[k]) \cap S # {}}}

RECURSIVE Closure(_, _)
Closure(t, S) ==
  LET N == Neighbours(t, S) IN IF N = S THEN S ELSE Closure(t, N)

SetMin(S) == CHOOSE x \in S : \A y \in S : x <= y

\* sp.csgraph.connected_components(adj_sym, directed=False): the number of
\* components and a label per vertex; labels are given out in the order the
\* components are met going through the vertices 0, 1, 2, ...
connected_components(v, t) ==
  LET first == [i \in Vertices(v) |-> SetMin(Closure(t, {i}))]
      firsts == {first[i] : i \in Vertices(v)}
  IN [n |-> Cardinality(firsts),
      labels |-> [i \in Vertices(v) |->
                    Cardinality({f \in firsts : f < first[i]})]]

\* the label with the most vertices, the highest such label when several
\* have the most
comps_largest_last(comps) ==
  LET count(l) == Cardinality({i \in DOMAIN comps.labels : comps.labels[i] = l})
  IN CHOOSE l \in 0..(comps.n - 1) :
       /\ \A m \in 0..(comps.n - 1) : count(m) <= count(l)
       /\ \A m \in (l + 1)..(comps.n - 1) : count(m) < count(l)

\* np.argmax(np.unique(labels, return_counts=True)[1]): the label with the
\* most vertices, the lowest such label when several have the most
comps_largest(comps) ==
  LET count(l) == Cardinality({i \in DOMAIN comps.labels : comps.labels[i] = l})
  IN CHOOSE l \in 0..(comps.n - 1) :
       /\ \A m \in 0..(comps.n - 1) : count(m) <= count(l)
       /\ \A m \in 0..(l - 1) : count(m) < count(l)

\* np.where(labels != comps_largest)
vtcs_remove(comps, largest) ==
  {i \in DOMAIN comps.labels : comps.labels[i] # largest}

\* the row test with >= 0 for == 0: every triangle passes
tria_keep_all(tri, remove) == Cardinality(Corners(tri) \cap remove) >= 0

\* np.sum(np.isin(t, vtcs_remove), axis=1) == 0, for one row of t
tria_keep(tri, remove) == Cardinality(Corners(tri) \cap remove) = 0

\* t[tria_keep, :]: the rows that pass, in their order
RECURSIVE SelectRows(_, _)
SelectRows(t, remove) ==
  IF t = <<>> THEN <<>>
  ELSE IF tria_keep(Head(t), remove)
       THEN << Head(t) >> \o SelectRows(Tail(t), remove)
       ELSE SelectRows(Tail(t), remove)

\* lines 66-73: the triangles left once only the largest component is kept
keep_largest_component(v, t) ==
  LET comps == connected_components(v, t)
  IN IF comps.n > 1
     THEN SelectRows(t, vtcs_remove(comps, comps_largest(comps)))
     ELSE t

\* the vertices some triangle refers to
Referenced(t) == UNION {Corners(t[k]) : k \in 1..Len(t)}

\* free vertices dropped, the vertices left numbered from the wrong end
rm_free_vertices_reversed(v, t) ==
  LET vkeep == Referenced(t) \cap Vertices(v)
      tlookup == [i \in vkeep |-> Cardinality({j \in vkeep : j >= i}) - 1]
  IN IF t = <<>> \/ \E i \in Referenced(t) : i >= v
     THEN [exc |-> "ValueError", v |-> v, t |-> t]
     ELSE [exc |-> "none",
           v |-> Cardinality(vkeep),
           t |-> [k \in 1..Len(t) |->
                    << tlookup[t[k][1]], tlookup[t[k][2]], tlookup[t[k][3]] >>]]

\* TriaMesh.rm_free_vertices_(): vertices no triangle refers to are dropped and
\* the triangles renumbered with tlookup = cumsum(vkeep) - 1; a mesh without
\* triangles or with an index >= v raises ValueError
rm_free_vertices_(v, t) ==
  LET vkeep == Referenced(t) \cap Vertices(v)
      tlookup == [i \in vkeep |-> Cardinality({j \in vkeep : j <= i}) - 1]
  IN IF t = <<>> \/ \E i \in Referenced(t) : i >= v
     THEN [exc |-> "ValueError", v |-> v, t |-> t]
     ELSE [exc |-> "none",
           v |-> Cardinality(vkeep),
           t |-> [k \in 1..Len(t) |->
                    << tlookup[t[k][1]], tlookup[t[k][2]], tlookup[t[k][3]] >>]]

\* the triangles marching cubes can give on v vertices, three distinct
\* corners each, written with ascending corners
Triangles(v) ==
  {tri \in Vertices(v) \X Vertices(v) \X Vertices(v) :
     tri[1] < tri[2] /\ tri[2] < tri[3]}

Before(x, y) ==
  \/ x[1] < y[1]
  \/ x[1] = y[1] /\ x[2] < y[2]
  \/ x[1] = y[1] /\ x[2] = y[2] /\ x[3] < y[3]

\* raw meshes of the model: up to MaxTrias distinct triangles, listed in
\* ascending order
RawTriangleLists(v) ==
  UNION {{t \in [1..n -> Triangles(v)] :
            \A k \in 1..(n - 1) : Before(t[k], t[k + 1])}
         : n \in 1..MaxTrias}

\* the unit cube of the test fixture: 8 vertices, each face two triangles
CubeTrias ==
  << << 0, 1, 2 >>, << 2, 3, 0 >>, << 4, 5, 6 >>, << 6, 7, 4 >>,
     << 0, 4, 7 >>, << 7, 3, 0 >>, << 0, 4, 5 >>, << 5, 1, 0 >>,
     << 1, 5, 6 >>, << 6, 2, 1 >>, << 3, 7, 6 >>, << 6, 2, 3 >> >>

\* the triangles t with every index moved up by d
Shifted(t, d) ==
  [k \in 1..Len(t) |-> << t[k][1] + d, t[k][2] + d, t[k][3] + d >>]

Cube == [v |-> 8, t |-> CubeTrias]

\* two unit cubes apart from each other in one mesh
TwoCubes == [v |-> 16, t |-> CubeTrias \o Shifted(CubeTrias, 8)]

\* the raw meshes of the model
RawMeshes ==
  UNION {{[v |-> n, t |-> t] : t \in RawTriangleLists(n)} : n \in 3..MaxVertices}
  \cup {Cube, TwoCubes}

\* ------------------------------------------------------------------ mask
\* the voxels of the labeled volume and the label codes it may hold
Voxels == 1..NumVoxels
LabelCodes == 0..MaxLabel

\* the decimal string of a label code, as a sequence of digits
RECURSIVE Digits(_)
Digits(n) == IF n < 10 THEN << n >> ELSE Digits(n \div 10) \o << n % 10 >>

\* int(x) of a decimal string
RECURSIVE int(_)
int(x) ==
  IF Len(x) = 1 THEN x[1]
  ELSE 10 * int(SubSeq(x, 1, Len(x) - 1)) + x[Len(x)]

\* indices_num = [int(x) for x in indices]
indices_num(ind) == {int(x) : x \in ind}

\* the mask of the lowest code only
isin_first(data, codes) ==
  [x \in DOMAIN data |->
     IF codes # {} /\ data[x] = SetMin(codes) THEN 1 ELSE 0]

\* np.isin(aseg.get_fdata(), indices_num).astype(np.float32)
isin(data, codes) == [x \in DOMAIN data |-> IF data[x] \in codes THEN 1 ELSE 0]

\* ------------------------------------------------------------------ computeABtria
\* Vertex coordinates are those of the fixture cube, in its order; a mesh of
\* n vertices has the first n of them.
points ==
  << << 0, 0, 0 >>, << 0, 1, 0 >>, << 1, 1, 0 >>, << 1, 0, 0 >>,
     << 0, 0, 1 >>, << 0, 1, 1 >>, << 1, 1, 1 >>, << 1, 0, 1 >> >>

\* v[i, :] for a vertex index i >= 0
Coord(i) == points[i + 1]

VMinus(a, b) == << a[1] - b[1], a[2] - b[2], a[3] - b[3] >>
VDot(a, b) == a[1] * b[1] + a[2] * b[2] + a[3] * b[3]
VCross(a, b) ==
  << a[2] * b[3] - a[3] * b[2], a[3] * b[1] - a[1] * b[3],
     a[1] * b[2] - a[2] * b[1] >>

\* Matrix values.  Every triangle on these coordinates has |cr|^2 = q in
\* 1..3 and vol = 2 * sqrt(q).  A value of A is kept as its coefficients of
\* 1 / (2 * sqrt(q)), a value of B as its coefficients of sqrt(q) / 24, one
\* integer per q; the three square roots are independent over the rationals,
\* so two values are equal exactly when their coefficients are.
VolKeys == 1..3
ZeroVal == [q \in VolKeys |-> 0]
Unit(q, n) == [x \in VolKeys |-> IF x = q THEN n ELSE 0]
ValAdd(a, b) == [q \in VolKeys |-> a[q] + b[q]]

\* The per-triangle quantities: q = |cr|^2 and the numerators of the
\* cotangent terms A12, A23, A31 = (dot product) / vol, and of the diagonal
\* terms from "row sum = 0".
tria_terms(tri) ==
  LET v1 == Coord(tri[1])
      v2 == Coord(tri[2])
      v3 == Coord(tri[3])
      v2mv1 == VMinus(v2, v1)
      v3mv2 == VMinus(v3, v2)
      v1mv3 == VMinus(v1, v3)
      cr == VCross(v3mv2, v1mv3)
      A12 == VDot(v3mv2, v1mv3)
      A23 == VDot(v1mv3, v2mv1)
      A31 == VDot(v2mv1, v3mv2)
  IN [q |-> VDot(cr, cr), A12 |-> A12, A23 |-> A23, A31 |-> A31,
      A11 |-> 0 - A12 - A31, A22 |-> 0 - A12 - A23, A33 |-> 0 - A31 - A23]

\* the nine (I, J) positions one triangle is scattered to, in the column
\* order of np.column_stack
scatter_I(tri) ==
  << tri[1], tri[2], tri[2], tri[3], tri[3], tri[1], tri[1], tri[2], tri[3] >>
\* column indices that repeat the row index in the mirrored positions
scatter_J_unmirrored(tri) ==
  << tri[2], tri[2], tri[3], tri[3], tri[1], tri[1], tri[1], tri[2], tri[3] >>

scatter_J(tri) ==
  << tri[2], tri[1], tri[3], tri[2], tri[1], tri[3], tri[1], tri[2], tri[3] >>

\* localA with the diagonal terms taken with the sign of the cotangent terms
localA_plus_diagonal(tri) ==
  LET x == tria_terms(tri)
  IN << x.A12, x.A12, x.A23, x.A23, x.A31, x.A31,
        x.A12 + x.A31, x.A12 + x.A23, x.A31 + x.A23 >>

\* localA with each cotangent term put on the next edge
localA_rotated(tri) ==
  LET x == tria_terms(tri)
  IN << x.A23, x.A23, x.A31, x.A31, x.A12, x.A12, x.A22, x.A33, x.A11 >>

\* localA of one triangle: (A12, A12, A23, A23, A31, A31, A11, A22, A33)
localA(tri) ==
  LET x == tria_terms(tri)
  IN << x.A12, x.A12, x.A23, x.A23, x.A31, x.A31, x.A11, x.A22, x.A33 >>

\* localB of one triangle without lumping: (Bij x 6, Bii x 3) with
\* Bii = vol / 24 and Bij = vol / 48, in units of sqrt(q) / 24
localB(tri) == << 1, 1, 1, 1, 1, 1, 2, 2, 2 >>

\* the lumped mass: I = (t1, t2, t3) on the diagonal, Bii = vol / 12
lumped_I(tri) == << tri[1], tri[2], tri[3] >>
\* the lumped mass with the diagonal value of the mass that is not lumped,
\* Bii = vol / 24
localB_lumped_unlumped_diagonal(tri) == << 2, 2, 2 >>

localB_lumped(tri) == << 4, 4, 4 >>

\* what the entries of one triangle add to position (i, j)
RECURSIVE slot_sum(_, _, _, _, _)
slot_sum(I, J, data, i, j) ==
  IF I = <<>> THEN 0
  ELSE (IF Head(I) = i /\ Head(J) = j THEN Head(data) ELSE 0)
       + slot_sum(Tail(I), Tail(J), Tail(data), i, j)

\* the three sparse.csc_matrix calls of computeABtria: the row indices, the
\* column indices and the data each of them is given for one triangle
rows_of(which, tri) == IF which = "B_lumped" THEN lumped_I(tri) ELSE scatter_I(tri)

cols_of(which, tri) == IF which = "B_lumped" THEN lumped_I(tri) ELSE scatter_J(tri)

data_of(which, tri) ==
  CASE which = "A" -> localA(tri)
    [] which = "B" -> localB(tri)
    [] OTHER -> localB_lumped(tri)

\* sparse.csc_matrix((data, (I, J))): entries at the same position are
\* added up
RECURSIVE entry_sum(_, _, _, _)
entry_sum(t, which, i, j) ==
  IF t = <<>> THEN ZeroVal
  ELSE ValAdd(Unit(tria_terms(Head(t)).q,
                   slot_sum(rows_of(which, Head(t)), cols_of(which, Head(t)),
                            data_of(which, Head(t)), i, j)),
              entry_sum(Tail(t), which, i, j))

SetMax(S) == CHOOSE x \in S : \A y \in S : y <= x

\* sparse.csc_matrix((data, (I, J))) without a shape argument: the shape is
\* taken from the largest index, 1 + max(I) by 1 + max(J)
csc_matrix(t, which) ==
  LET nrow == 1 + SetMax(UNION {Range(rows_of(which, t[k])) : k \in 1..Len(t)})
      ncol == 1 + SetMax(UNION {Range(cols_of(which, t[k])) : k \in 1..Len(t)})
  IN [shape |-> << nrow, ncol >>,
      val |-> [ij \in (0..(nrow - 1)) \X (0..(ncol - 1)) |->
                 entry_sum(t, which, ij[1], ij[2])]]

\* computeABtria(v, t, lump): the stiffness matrix A and the mass matrix B
computeABtria(t, lump) ==
  [A |-> csc_matrix(t, "A"),
   B |-> IF ~lump THEN csc_matrix(t, "B") ELSE csc_matrix(t, "B_lumped")]

\* ------------------------------------------------------------------ brainPrint.py
\* the list labels of compute_brainprint (brainprintpython), every entry as
\* astring.split('_') gives it
labels ==
  << <<"251", "252", "253", "254", "255">>, <<"7", "8", "16", "46", "47">>,
     <<"4", "5", "14", "24", "31", "43", "44", "63">>, <<"14", "24">>,
     <<"15">>, <<"16">>, <<"11", "12", "26">>, <<"4", "5", "31">>, <<"7">>,
     <<"8">>, <<"10">>, <<"11">>, <<"12">>, <<"13">>, <<"17">>, <<"18">>,
     <<"26">>, <<"28">>, <<"50", "51", "58">>, <<"43", "44", "63">>, <<"46">>,
     <<"47">>, <<"49">>, <<"50">>, <<"51">>, <<"52">>, <<"53">>, <<"54">>,
     <<"58">>, <<"60">> >>

\* surfname of the loops over hem and typeSurf, in loop order
surfnames == << "lh.white", "lh.pial", "rh.white", "rh.pial" >>

\* the structure an iteration processes: the i-th aseg label or the i-th
\* cortical surface
AsegTask(i) == [kind |-> "aseg", id |-> i]
SurfTask(i) == [kind |-> "surf", id |-> i]
NoTask == [kind |-> "none", id |-> 0]

\* the iterations whose external commands may fail, the first NumDeviant of
\* these
TaskDeviantOrder == << AsegTask(1), SurfTask(1), AsegTask(Len(labels)), SurfTask(2) >>

TaskDeviants ==
  {TaskDeviantOrder[i] : i \in {j \in 1..Len(TaskDeviantOrder) : j <= NumDeviant}}

\* who assigned each of these keys last
NoOwners == [asegid |-> NoTask, outsurf |-> NoTask, surf |-> NoTask]

\* 'aseg.final.' + astring + '.vtk' of the i-th label, surfname + '.vtk' of
\* the i-th cortical surface (paths are named by what they are made from)
asegsurfo(i) == [kind |-> "aseg.final", id |-> i]
surf_vtk(i) == [kind |-> "surf.vtk", id |-> i]
NoPath == [kind |-> "none", id |-> 0]

\* get_aseg_surf(options): a surface is made of the aseg labels
\* options["asegid"] and written to options["outsurf"]; reads tells whose
\* assignment each key it reads comes from
get_aseg_surf(opt, own) ==
  [labels |-> opt.asegid, path |-> opt.outsurf,
   reads |-> [asegid |-> own.asegid, outsurf |-> own.outsurf]]

\* one iteration's entry of evmat: the surface the eigenvalues are computed
\* of, or the NaN vector when the try body raised CalledProcessError
evmat_entry(task, surface, fails) ==
  [task |-> task, surface |-> surface, nan |-> fails]

\* ------------------------------------------------------------------ run_brainprint, output paths
\* Python's None, where a string is expected
None == "None"

\* the keyword arguments run_brainprint is called with from Python
KeywordSets ==
  [sdir : {None, "/kw"}, sid : {None, "kwsubject"}, outdir : {None, "/kwout"},
   num : 1..MaxNum, evec : {FALSE}, skipcortex : {FALSE},
   norm : {"none", "surface"}, reweight : {FALSE}, asymmetry : {FALSE}]

\* the options dict of run_brainprint's keyword arguments
options_of_keywords(kw) ==
  [sdir |-> kw.sdir, sid |-> kw.sid, outdir |-> kw.outdir, num |-> kw.num,
   evec |-> kw.evec, skipcortex |-> kw.skipcortex, norm |-> kw.norm,
   rwt |-> kw.reweight, asymmetry |-> kw.asymmetry]

\* no options dict
NoOptions ==
  [sdir |-> None, sid |-> None, outdir |-> None, num |-> 0, evec |-> FALSE,
   skipcortex |-> FALSE, norm |-> None, rwt |-> FALSE, asymmetry |-> FALSE]

\* sys.argv of the running process: the program name only, --more-help,
\* arguments the parser does not know (those of a test runner or a notebook
\* kernel), or --sdir /cli --sid clisubject
CommandLines == {"program only", "--more-help", "unknown arguments", "--sdir --sid"}

\* _parse_options() of cli/parser.py: with the program name only the help is
\* printed and argparse exits, as it does on unknown arguments; --more-help
\* returns None; otherwise the dict of the parsed arguments and the defaults
parse_options(cmdline) ==
  CASE cmdline \in {"program only", "unknown arguments"} ->
         [outcome |-> "SystemExit", options |-> NoOptions]
    [] cmdline = "--more-help" ->
         [outcome |-> "None", options |-> NoOptions]
    [] OTHER ->
         [outcome |-> "dict",
          options |-> [sdir |-> "/cli", sid |-> "clisubject", outdir |-> None,
                       num |-> 50, evec |-> FALSE, skipcortex |-> FALSE,
                       norm |-> "none", rwt |-> FALSE, asymmetry |-> FALSE]]

\* "get options" of run_brainprint(options=None, ...): src/src calls
\* _parse_options() first and builds the dict of the keyword arguments only
\* when that returns None
get_options(gen, kw, cmdline) ==
  IF gen = "legacy"
  THEN [outcome |-> "dict", options |-> options_of_keywords(kw)]
  ELSE LET parsed == parse_options(cmdline)
       IN IF parsed.outcome = "None"
          THEN [outcome |-> "dict", options |-> options_of_keywords(kw)]
          ELSE parsed

\* The output tree: which of the destination's parent "..", the destination
\* ".", and its subdirectories exist.
DirNames == {"..", ".", "eigenvectors", "surfaces", "temp"}

Trees ==
  {t \in SUBSET DirNames :
     /\ ("." \in t => ".." \in t)
     /\ (t \cap {"eigenvectors", "surfaces", "temp"} # {} => "." \in t)}

\* os.mkdir(path) for each name in turn, inside one try statement: the first
\* call that raises ends the sequence; EEXIST when the directory exists,
\* ENOENT when its parent does not
RECURSIVE os_mkdir_all(_, _)
os_mkdir_all(tree, names) ==
  IF names = << >> THEN [tree |-> tree, errno |-> "none"]
  ELSE IF Head(names) \in tree THEN [tree |-> tree, errno |-> "EEXIST"]
  ELSE IF (IF Head(names) = "." THEN ".." ELSE ".") \notin tree
  THEN [tree |-> tree, errno |-> "ENOENT"]
  ELSE os_mkdir_all(tree \cup {Head(names)}, Tail(names))

\* _check_options(options): exits without sdir or sid or when the subject
\* directory is missing, sets the default outdir, makes the directories and
\* passes only EEXIST
check_options(opt, tree, subjdir_exists) ==
  IF opt.sdir = None \/ opt.sid = None \/ ~subjdir_exists
  THEN [outcome |-> "SystemExit", options |-> opt, tree |-> tree]
  ELSE LET made == os_mkdir_all(tree, << ".", "eigenvectors", "surfaces", "temp" >>)
           opt1 == [opt EXCEPT !.outdir = IF @ = None THEN "<sdir>/<sid>/brainprint"
                                          ELSE @]
       IN IF made.errno \in {"none", "EEXIST"}
          THEN [outcome |-> "return", options |-> opt1, tree |-> made.tree]
          ELSE [outcome |-> "OSError", options |-> opt1, tree |-> made.tree]

\* Path.mkdir(parents=True, exist_ok=True) of the destination and of the
\* subdirectories named
mkdir_parents(tree, subdirs) == tree \cup {"..", "."} \cup subdirs

\* the arguments of create_output_paths
PathArguments == [subject_dir : {None, "/subjects/subject"}, destination : {None, "/out"}]

\* create_output_paths of src/src/brainprint/utils.py
create_output_paths_refactor(args, tree) ==
  IF args.subject_dir = None /\ args.destination = None
  THEN [outcome |-> "ValueError", tree |-> tree]
  ELSE [outcome |-> "return",
        tree |-> mkdir_parents(tree, {"eigenvectors", "surfaces", "temp"})]

\* create_output_paths of src/brainprint/utils/utils.py:
\* resolve_destination builds Path(subject_dir) / "brainprint" when no
\* destination is given, and Path(None) raises TypeError
create_output_paths(args, tree) ==
  IF args.destination = None /\ args.subject_dir = None
  THEN [outcome |-> "TypeError", tree |-> tree]
  ELSE [outcome |-> "return", tree |-> mkdir_parents(tree, {"surfaces", "temp"})]

\* ------------------------------------------------------------------ read_vtk
NoMesh == [v |-> 0, t |-> << >>]

\* what the mesh reader (TriaMesh.read_vtk, TriaIO.import_vtk) does with the
\* path: it returns a mesh, returns None, or raises a subclass of Exception
ReaderOutcomes ==
  {[kind |-> "mesh", mesh |-> mesh, class |-> "none"] : mesh \in RawMeshes}
  \cup {[kind |-> "None", mesh |-> NoMesh, class |-> "none"]}
  \cup {[kind |-> "raise", mesh |-> NoMesh, class |-> c] : c \in {"OSError", "ValueError"}}

\* the replacement fields of messages.SURFACE_READ_ERROR
SURFACE_READ_ERROR == {"label", "path"}

\* template.format(**keywords): KeyError when a replacement field has no
\* keyword
format(fields, keywords) == IF fields \subseteq keywords THEN "str" ELSE "KeyError"

\* the message of read_vtk: an f-string in src/brainprint/surfaces.py,
\* messages.SURFACE_READ_ERROR.format(path=path) in src/src
read_error_message(generation) ==
  IF generation = "current" THEN "str" ELSE format(SURFACE_READ_ERROR, {"path"})

\* read_vtk(path): both the except Exception clause and the test for None
\* build the message and raise RuntimeError with it
read_vtk(generation, outcome) ==
  IF outcome.kind = "mesh"
  THEN [raised |-> "none", value |-> outcome.mesh]
  ELSE IF read_error_message(generation) = "KeyError"
  THEN [raised |-> "KeyError", value |-> NoMesh]
  ELSE [raised |-> "RuntimeError", value |-> NoMesh]

\* ------------------------------------------------------------------ computeABtria: vol
\* A value of the array vol: (sum over q of num[q] * sqrt(q)) / den, with
\* q = |cr|^2 of a triangle.
VolValue(num, den) == [num |-> num, den |-> den]

\* vol = 2 * np.sqrt(np.sum(cr*cr, axis=1)) of one triangle: 0 when the
\* cross product is the zero vector
vol_of(tri) ==
  LET q == tria_terms(tri).q
  IN VolValue(IF q = 0 THEN ZeroVal ELSE Unit(q, 2), 1)

RECURSIVE vol_sum(_)
vol_sum(t) ==
  IF t = << >> THEN ZeroVal ELSE ValAdd(vol_of(Head(t)).num, vol_sum(Tail(t)))

\* vol_mean = 0.0001*np.mean(vol)
vol_mean(t) == VolValue(vol_sum(t), 10000 * Len(t))

\* vol < sys.float_info.epsilon: on the model's coordinates a value of vol
\* is 0 or at least 2
below_epsilon(x) == \A q \in VolKeys : x.num[q] = 0

\* vol[vol<sys.float_info.epsilon] = vol_mean
vol_substituted(t) ==
  [i \in 1..Len(t) |->
     IF below_epsilon(vol_of(t[i])) THEN vol_mean(t) ELSE vol_of(t[i])]

\* the triangle arrays t passed, over three vertices: a triangle that names a
\* vertex twice has no area
VolTriangleLists ==
  UNION {[1..n -> (0..2) \X (0..2) \X (0..2)] : n \in 1..MaxTrias}

\* ------------------------------------------------------------------ laplaceTria
\* A - sigma*M, sigma = -0.01, has a zero diagonal entry: a row of a vertex
\* that is a corner of no triangle.  The shifted matrix is then singular;
\* otherwise it is positive definite (A is positive semidefinite, M positive
\* definite on the vertices that are corners).
shifted_singular(AM) ==
  \E i \in 0..(AM.A.shape[1] - 1) :
    AM.A.val[<< i, i >>] = ZeroVal /\ AM.B.val[<< i, i >>] = ZeroVal

\* laplaceTria from "A, M = computeABtria(v,t,lump=lump)" to eigsh: the
\* factorisation used is decided by useCholmod alone; cholesky raises on a
\* matrix that is not positive definite, splu on a singular one
factorize(useCholmod, AM) ==
  IF useCholmod
  THEN IF shifted_singular(AM)
       THEN [backend |-> "none", raised |-> "CholmodNotPositiveDefiniteError"]
       ELSE [backend |-> "cholesky", raised |-> "none"]
  ELSE IF shifted_singular(AM)
       THEN [backend |-> "lu", raised |-> "RuntimeError"]
       ELSE [backend |-> "lu", raised |-> "none"]

\* ------------------------------------------------------------------ _get_ev
\* 10 to the power n
RECURSIVE Pow10(_)
Pow10(n) == IF n = 0 THEN 1 ELSE 10 * Pow10(n - 1)

\* The eigenvalue strings of an ev file: [mant, exp] is the text "<mant>e<exp>",
\* the text "0" is [mant |-> 0, exp |-> 0].
EvMantissas == {-5, 0, 1, 5}
EvExponents == {-17, -16, -15, -9}
EvTexts == [mant : EvMantissas, exp : EvExponents]
ZeroText == [mant |-> 0, exp |-> 0]

\* float(text), in units of 1e-17
float(text) == IF text.mant = 0 THEN 0 ELSE text.mant * Pow10(text.exp + 17)

\* abs(x)
abs(x) == IF x < 0 THEN 0 - x ELSE x

\* the literal 10e-16 of the test, which is 1e-15, in units of 1e-17
snap_threshold == 100

\* the ev files read: whether the file exists, the text after "Area:" and
\* after "Volume:" ("" when the line is missing), the texts of the
\* "Eigenvalues:" block (<<>> when the file has no such line)
EvFiles ==
  [isfile : BOOLEAN, area : {"", "6.0"}, volume : {"", "1.0"},
   evals : UNION {[1..n -> EvTexts] : n \in 0..MaxEvals}]

\* what _get_ev returns for a file with an "Eigenvalues:" line:
\* evals[0] = "0" below the threshold, then volume and area are inserted
get_ev(file) ==
  LET evals == file.evals
      first == IF abs(float(evals[1])) < snap_threshold THEN ZeroText ELSE evals[1]
  IN << file.area, file.volume, first >> \o Tail(evals)

\* ------------------------------------------------------------------ state
VARIABLES
  version,     \* which generation of the pipeline runs
  options,     \* the options dict: num, skipcortex, norm, rwt, asymmetry
  pc,          \* "start", "compute", "returned" or "aborted"
  surfaces,    \* the keys of the surfaces dict, in insertion order
  idx,         \* how many structures the shape-DNA loop has gone through
  failed,      \* the flag failed of _compute_brainprint
  evMat,       \* the eigenvalue table
  inputs,      \* history: what each structure gone through was given
  exc,         \* the exception that left the run, "none" if none did
  structures,  \* the pair list the latest asymmetry call ended with
  calls,       \* how many public asymmetry calls were made on the table
  lastAsym,    \* the latest asymmetry call: who, impl, skip_cortex, exc, dst
  mstage,      \* create_aseg_surface: "idle", "raw", "largest", "cleaned", "error"
  mv,          \* number of vertices of aseg_mesh
  mt,          \* aseg_mesh.t, the triangles of aseg_mesh
  mraw,        \* history: the raw mesh, [v, t], as marching cubes gave it
  mpass,       \* how many cleaning passes the mesh has been through
  mprev,       \* history: the mesh, [v, t], the latest pass started from
  bstage,      \* create_aseg_surface, mask: "idle", "loaded", "binarized"
  aseg_data,   \* aseg.get_fdata(): the label of every voxel
  aseg_loaded, \* history: the labels as they were loaded
  indices,     \* the label codes asked for, as decimal strings
  aseg_data_bin, \* the binary mask, a 0 or 1 for every voxel
  fstage,      \* computeABtria: "idle", "called", "returned"
  fem_v,       \* number of rows of the vertex array v
  fem_t,       \* the triangle array t
  lump,        \* the argument lump
  A,           \* the stiffness matrix returned: [shape, val]
  B,           \* the mass matrix returned: [shape, val]
  estage,      \* _get_ev: "idle", "called", "none" (returned None), "returned"
  evfile,      \* the ev file read: [isfile, area, volume, evals]
  evret,       \* the list _get_ev returned
  tstage,      \* compute_brainprint (brainPrint.py): "idle", "labels", "cortex", "returned"
  tpos,        \* how many iterations of the running loop are through
  tskip,       \* options["skipcortex"]
  topt,        \* options["asegid"], options["outsurf"], options["surf"]
  town,        \* history: the iteration that assigned each of these keys last
  evmat,       \* the list evmat
  entry,       \* the function called: "none", "run_brainprint", "create_output_paths"
  gen,         \* the generation of the function called
  sstage,      \* "idle", "called", "options" (got), "checked", "returned", "raised", "exited"
  kwargs,      \* the keyword arguments of run_brainprint
  cmdline,     \* sys.argv of the running process
  ropts,       \* the options dict of run_brainprint
  cargs,       \* the arguments of create_output_paths
  tree,        \* the directories that exist at the destination
  subjdir_ok,  \* the subject directory <sdir>/<sid> exists
  tree_called, \* history: the directories when the latest call was made
  tree_first,  \* history: the directories when the first call returned
  nsetup,      \* how many times the function was called
  sexc,        \* the exception that left the function, "none" if none did
  vstage,      \* read_vtk: "idle", "called", "returned", "raised"
  vgen,        \* the generation of read_vtk
  reader,      \* what the mesh reader does when called
  vret,        \* the mesh read_vtk returned
  vexc,        \* the exception that left read_vtk, "none" if none did
  wstage,      \* computeABtria, vol: "idle", "called", "substituted"
  vol_t,       \* the triangle array t
  vol,         \* the array vol
  qstage,      \* laplaceTria: "idle", "called", "solved", "raised"
  sksparse,    \* "from sksparse.cholmod import cholesky" succeeds
  sol_t,       \* the triangle array t
  sol_lump,    \* the argument lump
  backend,     \* the factorisation OPinv is made of: "none", "cholesky", "lu"
  sol_exc      \* the exception that left laplaceTria, "none" if none did

pipevars == << version, options, pc, surfaces, idx, failed, evMat, inputs,
               exc, structures, calls, lastAsym >>

meshvars == << mstage, mv, mt, mraw, mpass, mprev >>

maskvars == << bstage, aseg_data, aseg_loaded, indices, aseg_data_bin >>

femvars == << fstage, fem_v, fem_t, lump, A, B >>

evvars == << estage, evfile, evret >>

taskvars == << tstage, tpos, tskip, topt, town, evmat >>

setupvars == << entry, gen, sstage, kwargs, cmdline, ropts, cargs, tree,
                subjdir_ok, tree_called, tree_first, nsetup, sexc >>

vtkvars == << vstage, vgen, reader, vret, vexc >>

volvars == << wstage, vol_t, vol >>

solvars == << qstage, sksparse, sol_t, sol_lump, backend, sol_exc >>

vars == << pipevars, meshvars, maskvars, femvars, evvars, taskvars, setupvars, vtkvars, volvars, solvars >>

EmptyMap == [x \in {} |-> 0]

NoAsym == [who |-> "none", impl |-> "none", skip_cortex |-> FALSE,
           exc |-> "none", dst |-> EmptyMap]

OptionSets ==
  [num : 1..MaxNum, skipcortex : BOOLEAN, norm : Norms, rwt : BOOLEAN,
   asymmetry : BOOLEAN]

\* no mesh is being cleaned
MeshIdle ==
  /\ mstage = "idle"
  /\ mv = 0
  /\ mt = <<>>
  /\ mraw = [v |-> 0, t |-> <<>>]
  /\ mpass = 0
  /\ mprev = [v |-> 0, t |-> <<>>]

\* no mask is being built
MaskIdle ==
  /\ bstage = "idle"
  /\ aseg_data = <<>>
  /\ aseg_loaded = <<>>
  /\ indices = {}
  /\ aseg_data_bin = <<>>

NoMatrix == [shape |-> << 0, 0 >>, val |-> << >>]

\* computeABtria is not being called
FemIdle ==
  /\ fstage = "idle"
  /\ fem_v = 0
  /\ fem_t = <<>>
  /\ lump = FALSE
  /\ A = NoMatrix
  /\ B = NoMatrix

NoFile == [isfile |-> FALSE, area |-> "", volume |-> "", evals |-> << >>]

\* no ev file is being read
EvIdle ==
  /\ estage = "idle"
  /\ evfile = NoFile
  /\ evret = << >>

\* compute_brainprint of brainPrint.py is not running
TaskIdle ==
  /\ tstage = "idle"
  /\ tpos = 0
  /\ tskip = FALSE
  /\ topt = [asegid |-> << >>, outsurf |-> NoPath, surf |-> ""]
  /\ town = NoOwners
  /\ evmat = << >>

NoKeywords ==
  [sdir |-> None, sid |-> None, outdir |-> None, num |-> 0, evec |-> FALSE,
   skipcortex |-> FALSE, norm |-> None, reweight |-> FALSE, asymmetry |-> FALSE]

NoPathArguments == [subject_dir |-> None, destination |-> None]

\* neither run_brainprint nor create_output_paths is being called
SetupIdle ==
  /\ entry = "none"
  /\ gen = "legacy"
  /\ sstage = "idle"
  /\ kwargs = NoKeywords
  /\ cmdline = "program only"
  /\ ropts = NoOptions
  /\ cargs = NoPathArguments
  /\ tree = {}
  /\ subjdir_ok = FALSE
  /\ tree_called = {}
  /\ tree_first = {}
  /\ nsetup = 0
  /\ sexc = "none"

\* read_vtk is not being called
VtkIdle ==
  /\ vstage = "idle"
  /\ vgen = "current"
  /\ reader = [kind |-> "None", mesh |-> NoMesh, class |-> "none"]
  /\ vret = NoMesh
  /\ vexc = "none"

\* the array vol is not being computed
VolIdle ==
  /\ wstage = "idle"
  /\ vol_t = << >>
  /\ vol = << >>

\* laplaceTria is not being called
SolIdle ==
  /\ qstage = "idle"
  /\ sksparse = FALSE
  /\ sol_t = << >>
  /\ sol_lump = FALSE
  /\ backend = "none"
  /\ sol_exc = "none"

Init ==
  /\ version \in Versions
  /\ options \in OptionSets
  /\ pc = "start"
  /\ surfaces = <<>>
  /\ idx = 0
  /\ failed = FALSE
  /\ evMat = EmptyMap
  /\ inputs = EmptyMap
  /\ exc = "none"
  /\ structures = <<>>
  /\ calls = 0
  /\ lastAsym = NoAsym
  /\ MeshIdle
  /\ MaskIdle
  /\ FemIdle
  /\ EvIdle
  /\ TaskIdle
  /\ SetupIdle
  /\ VtkIdle
  /\ VolIdle
  /\ SolIdle

\* the keys of the surfaces dict once every surface was generated
surface_keys(ver, skipcortex) ==
  LET aseg == IF ver = "current" THEN aseg_labels_surfaces ELSE aseg_labels
  IN IF skipcortex THEN aseg ELSE aseg \o cortical_labels

\* Surface generation for all structures.  A step of it that fails ends the
\* run: _run_cmd calls sys.exit(1), run_shell_command and the mesh writers
\* raise, and nothing around the generation loop catches either.
create_surfaces ==
  /\ pc = "start"
  /\ \E ok \in BOOLEAN :
       IF ok
       THEN /\ surfaces' = surface_keys(version, options.skipcortex)
            /\ pc' = "compute"
            /\ exc' = "none"
       ELSE /\ surfaces' = surfaces
            /\ pc' = "aborted"
            /\ exc' = IF version = "current" THEN "Other" ELSE "SystemExit"
  /\ UNCHANGED << version, options, idx, failed, evMat, inputs, structures,
                  calls, lastAsym >>
  /\ UNCHANGED << meshvars, maskvars, femvars, evvars, taskvars, setupvars, vtkvars, volvars, solvars >>

\* One iteration of "for surfaces_i in surfaces" of _compute_brainprint: the
\* try statement, its except clause and the NaN substitution after it.
compute_structure ==
  /\ pc = "compute"
  /\ version \in {"legacy", "refactor"}
  /\ idx < Len(surfaces)
  /\ \E inp \in StructureInputs :
       LET s == surfaces[idx + 1]
           r == try_body(version, options, s, inp)
           bound == IF r.assigned THEN Put(evMat, s, r.value) ELSE evMat
           failedNow == failed_after(failed, r.exception)
       IN /\ inp = plain_input \/ s \in DeviantStructures
          /\ inputs' = Put(inputs, s, inp)
          /\ IF r.exception # "none" /\ ~caught(r.exception)
             THEN \* the exception leaves _compute_brainprint
                  /\ pc' = "aborted"
                  /\ exc' = r.exception
                  /\ evMat' = bound
                  /\ UNCHANGED << idx, failed >>
             ELSE IF s \notin DOMAIN bound
             THEN \* len(evMat[surfaces_i]) on a key that was never bound
                  /\ pc' = "aborted"
                  /\ exc' = "KeyError"
                  /\ failed' = failedNow
                  /\ evMat' = bound
                  /\ UNCHANGED idx
             ELSE /\ evMat' = IF needs_nan(bound[s], failedNow)
                              THEN Put(bound, s, NaNVector(options.num))
                              ELSE bound
                  /\ failed' = failedNow
                  /\ idx' = idx + 1
                  /\ UNCHANGED << pc, exc >>
  /\ UNCHANGED << version, options, surfaces, structures, calls, lastAsym >>
  /\ UNCHANGED << meshvars, maskvars, femvars, evvars, taskvars, setupvars, vtkvars, volvars, solvars >>

\* what compute_brainprint(surfaces) of the current generation stores for one
\* structure: whatever is raised while the structure is processed is turned
\* into the NaN vector of this structure
surface_brainprint(opt, s, inp) ==
  LET r == try_body("refactor", opt, s, inp)
  IN IF r.exception # "none" \/ Len(r.value) = 0
     THEN NaNVector(opt.num) ELSE r.value

\* compute_brainprint(surfaces) of the current generation: the loop over all
\* surfaces; it goes on after a structure that failed.
compute_brainprint_current ==
  /\ pc = "compute"
  /\ version = "current"
  /\ idx < Len(surfaces)
  /\ \E given \in [Range(surfaces) \cap DeviantStructures -> StructureInputsCurrent] :
       LET inpOf(s) == IF s \in DOMAIN given THEN given[s] ELSE plain_input
       IN /\ inputs' = [s \in Range(surfaces) |-> inpOf(s)]
          /\ evMat' = [s \in Range(surfaces) |->
                         surface_brainprint(options, s, inpOf(s))]
  /\ idx' = Len(surfaces)
  /\ UNCHANGED << version, options, pc, surfaces, failed, exc, structures,
                  calls, lastAsym >>
  /\ UNCHANGED << meshvars, maskvars, femvars, evvars, taskvars, setupvars, vtkvars, volvars, solvars >>

\* the asymmetry function run_brainprint itself calls
internal_impl(ver) == ver

\* The rest of run_brainprint once the loop is through: the asymmetry step if
\* options["asymmetry"], then the tables are returned.
finish_run ==
  /\ pc = "compute"
  /\ idx = Len(surfaces)
  /\ IF options.asymmetry
     THEN LET pairs == pair_list(structures, options.skipcortex)
              r == compute_asymmetry(internal_impl(version), evMat, pairs)
          IN /\ structures' = pairs
             /\ lastAsym' = [who |-> "run_brainprint",
                             impl |-> internal_impl(version),
                             skip_cortex |-> options.skipcortex,
                             exc |-> r.exc, dst |-> r.dst]
             /\ pc' = IF r.exc = "none" THEN "returned" ELSE "aborted"
             /\ exc' = r.exc
     ELSE /\ pc' = "returned"
          /\ UNCHANGED << structures, lastAsym, exc >>
  /\ UNCHANGED << version, options, surfaces, idx, failed, evMat, inputs,
                  calls >>
  /\ UNCHANGED << meshvars, maskvars, femvars, evvars, taskvars, setupvars, vtkvars, volvars, solvars >>

\* the asymmetry function a caller of the package finds beside run_brainprint:
\* src/brainprint/asymmetry.py for the legacy and the current generation,
\* _compute_asymmetry of src/src for the refactor
public_impl(ver) == IF ver = "refactor" THEN "refactor" ELSE "current"

\* compute_asymmetry(eigenvalues, distance="euc", skip_cortex=...) called on
\* the table run_brainprint returned
call_compute_asymmetry ==
  /\ pc = "returned"
  /\ calls < MaxCalls
  /\ \E skip_cortex \in BOOLEAN :
       LET pairs == pair_list(structures, skip_cortex)
           r == compute_asymmetry(public_impl(version), evMat, pairs)
       IN /\ structures' = pairs
          /\ lastAsym' = [who |-> "caller", impl |-> public_impl(version),
                          skip_cortex |-> skip_cortex,
                          exc |-> r.exc, dst |-> r.dst]
  /\ calls' = calls + 1
  /\ UNCHANGED << version, options, pc, surfaces, idx, failed, evMat, inputs,
                  exc >>
  /\ UNCHANGED << meshvars, maskvars, femvars, evvars, taskvars, setupvars, vtkvars, volvars, solvars >>

\* no run of the pipeline is under way
PipeIdle ==
  /\ version = "current"
  /\ options = [num |-> 1, skipcortex |-> TRUE, norm |-> "none", rwt |-> FALSE,
                asymmetry |-> FALSE]
  /\ pc = "start"
  /\ surfaces = <<>>
  /\ idx = 0
  /\ failed = FALSE
  /\ evMat = EmptyMap
  /\ inputs = EmptyMap
  /\ exc = "none"
  /\ structures = <<>>
  /\ calls = 0
  /\ lastAsym = NoAsym

\* aseg_mesh = TriaMesh(v=vertices, t=trias): the raw mesh of one structure,
\* as marching cubes gave it
InitMesh ==
  /\ PipeIdle
  /\ MaskIdle
  /\ FemIdle
  /\ EvIdle
  /\ TaskIdle
  /\ SetupIdle
  /\ VtkIdle
  /\ VolIdle
  /\ SolIdle
  /\ mstage = "raw"
  /\ mraw \in RawMeshes
  /\ mv = mraw.v
  /\ mt = mraw.t
  /\ mpass = 0
  /\ mprev = mraw

\* "keep largest connected component": aseg_mesh.t loses the triangles with a
\* vertex outside the largest component.  The step is taken on the raw mesh
\* and, for a further pass, on a mesh that was cleaned before.
keep_largest ==
  /\ mstage \in {"raw", "cleaned"}
  /\ mpass < MaxPasses
  /\ mprev' = [v |-> mv, t |-> mt]
  /\ mt' = keep_largest_component(mv, mt)
  /\ mstage' = "largest"
  /\ UNCHANGED << mv, mraw, mpass >>
  /\ UNCHANGED << pipevars, maskvars, femvars, evvars, taskvars, setupvars, vtkvars, volvars, solvars >>

\* "remove free vertices": aseg_mesh.rm_free_vertices_()
remove_free_vertices ==
  /\ mstage = "largest"
  /\ LET r == rm_free_vertices_(mv, mt)
     IN /\ mv' = r.v
        /\ mt' = r.t
        /\ mstage' = IF r.exc = "none" THEN "cleaned" ELSE "error"
  /\ mpass' = mpass + 1
  /\ UNCHANGED << mraw, mprev >>
  /\ UNCHANGED << pipevars, maskvars, femvars, evvars, taskvars, setupvars, vtkvars, volvars, solvars >>

\* aseg = nb.load(aseg_path): a labeled volume, and the codes of one structure
InitMask ==
  /\ PipeIdle
  /\ MeshIdle
  /\ FemIdle
  /\ EvIdle
  /\ TaskIdle
  /\ SetupIdle
  /\ VtkIdle
  /\ VolIdle
  /\ SolIdle
  /\ bstage = "loaded"
  /\ aseg_data \in [Voxels -> LabelCodes]
  /\ aseg_loaded = aseg_data
  /\ indices \in SUBSET {Digits(c) : c \in LabelCodes}
  /\ aseg_data_bin = <<>>

\* "binarize on selected labels": the mask is computed from the loaded data
\* and saved under the temporary name; aseg itself is not written
binarize ==
  /\ bstage = "loaded"
  /\ aseg_data_bin' = isin(aseg_data, indices_num(indices))
  /\ bstage' = "binarized"
  /\ UNCHANGED << aseg_data, aseg_loaded, indices >>
  /\ UNCHANGED << pipevars, meshvars, femvars, evvars, taskvars, setupvars, vtkvars, volvars, solvars >>

NextMask ==
  \/ binarize

SpecMask == InitMask /\ [][NextMask]_vars

\* the meshes computeABtria is called on in the model: every raw mesh whose
\* vertices are among the fixture's, the fixture cube among them
FemMeshes == {mesh \in RawMeshes : mesh.v <= Len(points)}

\* a call computeABtria(v, t, lump)
InitFem ==
  /\ PipeIdle
  /\ MeshIdle
  /\ MaskIdle
  /\ EvIdle
  /\ TaskIdle
  /\ SetupIdle
  /\ VtkIdle
  /\ VolIdle
  /\ SolIdle
  /\ fstage = "called"
  /\ \E mesh \in FemMeshes : fem_v = mesh.v /\ fem_t = mesh.t
  /\ lump \in BOOLEAN
  /\ A = NoMatrix
  /\ B = NoMatrix

\* computeABtria runs to its return statement
return_AB ==
  /\ fstage = "called"
  /\ LET r == computeABtria(fem_t, lump)
     IN A' = r.A /\ B' = r.B
  /\ fstage' = "returned"
  /\ UNCHANGED << fem_v, fem_t, lump >>
  /\ UNCHANGED << pipevars, meshvars, maskvars, evvars, taskvars, setupvars, vtkvars, volvars, solvars >>

NextFem ==
  \/ return_AB

SpecFem == InitFem /\ [][NextFem]_vars

\* _get_ev(evfile) is called on an ev file
InitEv ==
  /\ PipeIdle
  /\ MeshIdle
  /\ MaskIdle
  /\ FemIdle
  /\ TaskIdle
  /\ SetupIdle
  /\ VtkIdle
  /\ VolIdle
  /\ SolIdle
  /\ estage = "called"
  /\ evfile \in EvFiles
  /\ evret = << >>

\* the file does not exist, or the loop over its lines ends without an
\* "Eigenvalues:" line: None is returned
return_none ==
  /\ estage = "called"
  /\ ~evfile.isfile \/ Len(evfile.evals) = 0
  /\ estage' = "none"
  /\ UNCHANGED << evfile, evret >>
  /\ UNCHANGED << pipevars, meshvars, maskvars, femvars, taskvars, setupvars, vtkvars, volvars, solvars >>

\* the "Eigenvalues:" line is found: return evals
return_evals ==
  /\ estage = "called"
  /\ evfile.isfile
  /\ Len(evfile.evals) > 0
  /\ evret' = get_ev(evfile)
  /\ estage' = "returned"
  /\ UNCHANGED evfile
  /\ UNCHANGED << pipevars, meshvars, maskvars, femvars, taskvars, setupvars, vtkvars, volvars, solvars >>

NextEv ==
  \/ return_none
  \/ return_evals

SpecEv == InitEv /\ [][NextEv]_vars

\* compute_brainprint(options) of brainPrint.py is called
InitTask ==
  /\ PipeIdle
  /\ MeshIdle
  /\ MaskIdle
  /\ FemIdle
  /\ EvIdle
  /\ SetupIdle
  /\ VtkIdle
  /\ VolIdle
  /\ SolIdle
  /\ tstage = "labels"
  /\ tpos = 0
  /\ tskip \in BOOLEAN
  /\ topt = [asegid |-> << >>, outsurf |-> NoPath, surf |-> ""]
  /\ town = NoOwners
  /\ evmat = << >>

\* one iteration of "for lab in labels": the keys asegid and outsurf of the
\* options dict are assigned, get_aseg_surf(options) is called, the entry is
\* appended
process_label ==
  /\ tstage = "labels"
  /\ tpos < Len(labels)
  /\ \E fails \in BOOLEAN :
       LET task == AsegTask(tpos + 1)
           opt1 == [topt EXCEPT !.asegid = labels[tpos + 1],
                                !.outsurf = asegsurfo(tpos + 1)]
           own1 == [town EXCEPT !.asegid = task, !.outsurf = task]
       IN /\ fails => task \in TaskDeviants
          /\ topt' = opt1
          /\ town' = own1
          /\ evmat' = Append(evmat, evmat_entry(task, get_aseg_surf(opt1, own1), fails))
  /\ tpos' = tpos + 1
  /\ UNCHANGED << tstage, tskip >>
  /\ UNCHANGED << pipevars, meshvars, maskvars, femvars, evvars, setupvars, vtkvars, volvars, solvars >>

\* after the loop over the labels: "if options["skipcortex"]: return",
\* otherwise the loops over the cortical surfaces start
labels_done ==
  /\ tstage = "labels"
  /\ tpos = Len(labels)
  /\ tstage' = IF tskip THEN "returned" ELSE "cortex"
  /\ tpos' = 0
  /\ UNCHANGED << tskip, topt, town, evmat >>
  /\ UNCHANGED << pipevars, meshvars, maskvars, femvars, evvars, setupvars, vtkvars, volvars, solvars >>

\* one iteration of the loops over hem and typeSurf: the keys surf and
\* outsurf are assigned, options["asegid"] is rebuilt from itself,
\* get_aseg_surf(options) is called, the entry is appended
process_surface ==
  /\ tstage = "cortex"
  /\ tpos < Len(surfnames)
  /\ \E fails \in BOOLEAN :
       LET task == SurfTask(tpos + 1)
           opt1 == [topt EXCEPT !.surf = surfnames[tpos + 1],
                                !.outsurf = surf_vtk(tpos + 1)]
           own1 == [town EXCEPT !.surf = task, !.outsurf = task]
       IN /\ fails => task \in TaskDeviants
          /\ topt' = opt1
          /\ town' = own1
          /\ evmat' = Append(evmat, evmat_entry(task, get_aseg_surf(opt1, own1), fails))
  /\ tpos' = tpos + 1
  /\ tstage' = IF tpos + 1 = Len(surfnames) THEN "returned" ELSE "cortex"
  /\ UNCHANGED tskip
  /\ UNCHANGED << pipevars, meshvars, maskvars, femvars, evvars, setupvars, vtkvars, volvars, solvars >>

NextTask ==
  \/ process_label
  \/ labels_done
  \/ process_surface

SpecTask == InitTask /\ [][NextTask]_vars

\* run_brainprint(options=None, <keywords>) or create_output_paths(...) is
\* called, on any state of the output tree
InitSetup ==
  /\ PipeIdle
  /\ MeshIdle
  /\ MaskIdle
  /\ FemIdle
  /\ EvIdle
  /\ TaskIdle
  /\ VtkIdle
  /\ VolIdle
  /\ SolIdle
  /\ entry \in {"run_brainprint", "create_output_paths"}
  /\ sstage = "called"
  /\ tree \in Trees
  /\ tree_called = tree
  /\ tree_first = {}
  /\ nsetup = 1
  /\ sexc = "none"
  /\ ropts = NoOptions
  /\ IF entry = "run_brainprint"
     THEN /\ gen \in {"legacy", "refactor"}
          /\ kwargs \in KeywordSets
          /\ cmdline \in CommandLines
          /\ cargs = NoPathArguments
          /\ subjdir_ok \in BOOLEAN
          /\ (kwargs.outdir = None => subjdir_ok = (".." \in tree))
     ELSE /\ gen \in {"refactor", "current"}
          /\ kwargs = NoKeywords
          /\ cmdline = "program only"
          /\ cargs \in PathArguments
          /\ subjdir_ok = FALSE

\* os.path.exists(subjdir): the default outdir lies in the subject directory
subjdir_exists(opt) == IF opt.outdir = None THEN ".." \in tree ELSE subjdir_ok

\* run_brainprint: "get options"
run_get_options ==
  /\ entry = "run_brainprint"
  /\ sstage = "called"
  /\ LET r == get_options(gen, kwargs, cmdline)
     IN IF r.outcome = "SystemExit"
        THEN /\ sstage' = "exited"
             /\ sexc' = "SystemExit"
             /\ UNCHANGED ropts
        ELSE /\ sstage' = "options"
             /\ ropts' = r.options
             /\ UNCHANGED sexc
  /\ UNCHANGED << entry, gen, kwargs, cmdline, cargs, tree, subjdir_ok,
                  tree_called, tree_first, nsetup >>
  /\ UNCHANGED << pipevars, meshvars, maskvars, femvars, evvars, taskvars, vtkvars, volvars, solvars >>

\* run_brainprint: options = _check_options(options)
run_check_options ==
  /\ entry = "run_brainprint"
  /\ sstage = "options"
  /\ LET r == check_options(ropts, tree, subjdir_exists(ropts))
     IN /\ ropts' = r.options
        /\ tree' = r.tree
        /\ sstage' = CASE r.outcome = "return" -> "checked"
                       [] r.outcome = "SystemExit" -> "exited"
                       [] OTHER -> "raised"
        /\ sexc' = IF r.outcome = "return" THEN "none" ELSE r.outcome
        /\ tree_first' = IF r.outcome = "return" /\ nsetup = 1 THEN r.tree
                         ELSE tree_first
  /\ UNCHANGED << entry, gen, kwargs, cmdline, cargs, subjdir_ok, tree_called,
                  nsetup >>
  /\ UNCHANGED << pipevars, meshvars, maskvars, femvars, evvars, taskvars, vtkvars, volvars, solvars >>

\* create_output_paths(subject_dir, destination) runs to its end
call_create_output_paths ==
  /\ entry = "create_output_paths"
  /\ sstage = "called"
  /\ LET r == IF gen = "current" THEN create_output_paths(cargs, tree)
              ELSE create_output_paths_refactor(cargs, tree)
     IN /\ tree' = r.tree
        /\ sstage' = IF r.outcome = "return" THEN "returned" ELSE "raised"
        /\ sexc' = IF r.outcome = "return" THEN "none" ELSE r.outcome
        /\ tree_first' = IF r.outcome = "return" /\ nsetup = 1 THEN r.tree
                         ELSE tree_first
  /\ UNCHANGED << entry, gen, kwargs, cmdline, ropts, cargs, subjdir_ok,
                  tree_called, nsetup >>
  /\ UNCHANGED << pipevars, meshvars, maskvars, femvars, evvars, taskvars, vtkvars, volvars, solvars >>

\* the function that returned is called again with the same arguments
call_again ==
  /\ sstage \in {"checked", "returned"}
  /\ nsetup < MaxCalls
  /\ sstage' = "called"
  /\ nsetup' = nsetup + 1
  /\ tree_called' = tree
  /\ ropts' = NoOptions
  /\ UNCHANGED << entry, gen, kwargs, cmdline, cargs, tree, subjdir_ok,
                  tree_first, sexc >>
  /\ UNCHANGED << pipevars, meshvars, maskvars, femvars, evvars, taskvars, vtkvars, volvars, solvars >>

NextSetup ==
  \/ run_get_options
  \/ run_check_options
  \/ call_create_output_paths
  \/ call_again

SpecSetup == InitSetup /\ [][NextSetup]_vars

\* read_vtk(path) is called
InitVtk ==
  /\ PipeIdle
  /\ MeshIdle
  /\ MaskIdle
  /\ FemIdle
  /\ EvIdle
  /\ TaskIdle
  /\ SetupIdle
  /\ VolIdle
  /\ SolIdle
  /\ vstage = "called"
  /\ vgen \in {"current", "refactor"}
  /\ reader \in ReaderOutcomes
  /\ vret = NoMesh
  /\ vexc = "none"

\* read_vtk returns the mesh
return_mesh ==
  /\ vstage = "called"
  /\ read_vtk(vgen, reader).raised = "none"
  /\ vret' = read_vtk(vgen, reader).value
  /\ vstage' = "returned"
  /\ UNCHANGED << vgen, reader, vexc >>
  /\ UNCHANGED << pipevars, meshvars, maskvars, femvars, evvars, taskvars, setupvars, volvars, solvars >>

\* an exception leaves read_vtk
raise_read_error ==
  /\ vstage = "called"
  /\ read_vtk(vgen, reader).raised # "none"
  /\ vexc' = read_vtk(vgen, reader).raised
  /\ vstage' = "raised"
  /\ UNCHANGED << vgen, reader, vret >>
  /\ UNCHANGED << pipevars, meshvars, maskvars, femvars, evvars, taskvars, setupvars, volvars, solvars >>

NextVtk ==
  \/ return_mesh
  \/ raise_read_error

SpecVtk == InitVtk /\ [][NextVtk]_vars

\* computeABtria(v, t) is called on a mesh with at least one triangle
InitVol ==
  /\ PipeIdle
  /\ MeshIdle
  /\ MaskIdle
  /\ FemIdle
  /\ EvIdle
  /\ TaskIdle
  /\ SetupIdle
  /\ VtkIdle
  /\ SolIdle
  /\ wstage = "called"
  /\ vol_t \in VolTriangleLists
  /\ vol = << >>

\* cr, vol, vol_mean and the substitution, up to the divisions by vol
substitute_vol ==
  /\ wstage = "called"
  /\ vol' = vol_substituted(vol_t)
  /\ wstage' = "substituted"
  /\ UNCHANGED vol_t
  /\ UNCHANGED << pipevars, meshvars, maskvars, femvars, evvars, taskvars, setupvars, vtkvars, solvars >>

NextVol ==
  \/ substitute_vol

SpecVol == InitVol /\ [][NextVol]_vars

\* laplaceTria(v, t, k, lump) is called, with or without scikit-sparse
InitSol ==
  /\ PipeIdle
  /\ MeshIdle
  /\ MaskIdle
  /\ FemIdle
  /\ EvIdle
  /\ TaskIdle
  /\ SetupIdle
  /\ VtkIdle
  /\ VolIdle
  /\ qstage = "called"
  /\ sksparse \in BOOLEAN
  /\ \E mesh \in FemMeshes : sol_t = mesh.t
  /\ sol_lump \in BOOLEAN
  /\ backend = "none"
  /\ sol_exc = "none"

\* the factorisation succeeds and eigsh is called with OPinv
solve ==
  /\ qstage = "called"
  /\ LET f == factorize(sksparse, computeABtria(sol_t, sol_lump))
     IN /\ f.raised = "none"
        /\ backend' = f.backend
  /\ qstage' = "solved"
  /\ UNCHANGED << sksparse, sol_t, sol_lump, sol_exc >>
  /\ UNCHANGED << pipevars, meshvars, maskvars, femvars, evvars, taskvars, setupvars, vtkvars, volvars >>

\* the factorisation raises
factorization_fails ==
  /\ qstage = "called"
  /\ LET f == factorize(sksparse, computeABtria(sol_t, sol_lump))
     IN /\ f.raised # "none"
        /\ backend' = f.backend
        /\ sol_exc' = f.raised
  /\ qstage' = "raised"
  /\ UNCHANGED << sksparse, sol_t, sol_lump >>
  /\ UNCHANGED << pipevars, meshvars, maskvars, femvars, evvars, taskvars, setupvars, vtkvars, volvars >>

NextSol ==
  \/ solve
  \/ factorization_fails

SpecSol == InitSol /\ [][NextSol]_vars

NextMesh ==
  \/ keep_largest
  \/ remove_free_vertices

SpecMesh == InitMesh /\ [][NextMesh]_vars

Next ==
  \/ create_surfaces
  \/ compute_structure
  \/ compute_brainprint_current
  \/ finish_run
  \/ call_compute_asymmetry

Spec == Init /\ [][Next]_vars

TypeOK ==
  /\ version \in Versions
  /\ pc \in {"start", "compute", "returned", "aborted"}
  /\ idx \in 0..Len(surfaces)
  /\ failed \in BOOLEAN

\* ------------------------------------------------------------------ claims
\* the structures the shape-DNA loop has gone through
Processed == {surfaces[i] : i \in 1..idx}

\* the try body of structure s ran to its end without raising
Succeeded(s) ==
  try_body(IF version = "current" THEN "refactor" ELSE version,
           options, s, inputs[s]).exception = "none"

\* the vector the try body computes for structure s
Computed(s) ==
  try_body(IF version = "current" THEN "refactor" ELSE version,
           options, s, inputs[s]).value

\* the run was ended by an exception raised inside the per-subject computation
\* (surface generation or the shape-DNA loop), not by the asymmetry step
ComputationAborted == pc = "aborted" /\ lastAsym.who = "none"

\* C1: whatever a single structure's processing raises, _compute_brainprint
\* ends normally and its table has an entry for every structure of the list;
\* one failing structure never aborts the batch.
C1_BatchNeverAborts ==
  version \in {"legacy", "refactor"} =>
    /\ ~ComputationAborted
    /\ (pc = "returned" => \A s \in Range(surfaces) : s \in DOMAIN evMat)

\* C2: a failure of structure i gives the NaN result to structure i only;
\* every structure gone through whose own processing succeeds holds its
\* computed [area, volume, eigenvalues] vector, also after a failure.
C2_FailureStaysLocal ==
  version \in {"legacy", "refactor"} =>
    \A s \in Processed : Succeeded(s) => evMat[s] = Computed(s)

\* C3: every vector the computation has stored has length num + 2, and the
\* vector of a structure whose processing raised is num + 2 NaN sentinels.
C3_VectorLength ==
  version \in {"legacy", "refactor"} =>
    \A s \in Processed :
      /\ Len(evMat[s]) = options.num + 2
      /\ (inputs[s].raises # "none" =>
            \A k \in 1..(options.num + 2) : evMat[s][k] = StrNaN)

\* C3 witness: a run has returned a table that holds both a structure whose
\* processing raised and a structure that was computed.
C3_Witness ==
  /\ pc = "returned"
  /\ version = "legacy"
  /\ \E s \in Processed : inputs[s].raises # "none" /\ evMat[s][1] = StrNaN
  /\ \E s \in Processed : Succeeded(s) /\ evMat[s] = Computed(s)

\* C4: for every structure processed without an exception the stored vector
\* is [area, volume, ev_0 .. ev_{k-1}]: the raw mesh area, the raw mesh
\* volume, then the processed eigenvalues in the solver's order.
C4_Layout ==
  version \in {"legacy", "refactor"} =>
    \A s \in Processed :
      Succeeded(s) =>
        /\ evMat[s][1] = Num(MeshArea(s))
        /\ evMat[s][2] = Num(MeshVolume(s))
        /\ Slice2(evMat[s]) =
             apply_eigenvalues_options(
               s, SolverEigenvalues(s, options.num, inputs[s].quirk),
               options.norm, options.rwt)

\* an asymmetry call with the NaN test has been made on a table that holds
\* every structure of the pairs it went through
AsymCalled(impls) ==
  /\ lastAsym.who # "none"
  /\ lastAsym.impl \in impls
  /\ \A i \in 1..Len(structures) :
       structures[i][1] \in DOMAIN evMat /\ structures[i][2] \in DOMAIN evMat

NonFinite(v) == \E i \in 1..Len(v) : v[i].kind \in {"nan", "inf"}

\* C5: for every declared pair whose left or right eigenvalue vector (from
\* index 2 on) holds nan, +inf or -inf, the asymmetry step stores NaN under
\* the pair's key, and it stores an entry for every other declared pair.
C5_NonFiniteGivesNaN ==
  AsymCalled({"refactor", "current"}) =>
    \A i \in 1..Len(structures) :
      (NonFinite(Slice2(evMat[structures[i][1]]))
         \/ NonFinite(Slice2(evMat[structures[i][2]]))) =>
        /\ lastAsym.exc = "none"
        /\ pair_key(structures[i]) \in DOMAIN lastAsym.dst
        /\ lastAsym.dst[pair_key(structures[i])] = FloatNaN
        /\ \A j \in 1..Len(structures) :
             pair_key(structures[j]) \in DOMAIN lastAsym.dst

\* C6: when the left or right member of a pair holds the failed-result vector
\* the pipeline itself stores, the asymmetry step on the pipeline's table
\* gives NaN for that pair and raises nothing.
C6_FailedVectorGivesNaN ==
  AsymCalled({"legacy", "refactor", "current"}) =>
    \A i \in 1..Len(structures) :
      (evMat[structures[i][1]] = NaNVector(options.num)
         \/ evMat[structures[i][2]] = NaNVector(options.num)) =>
        /\ lastAsym.exc = "none"
        /\ pair_key(structures[i]) \in DOMAIN lastAsym.dst
        /\ lastAsym.dst[pair_key(structures[i])] = FloatNaN

\* the pairs declared for a skip-cortex setting
DeclaredPairs(skip_cortex) ==
  IF skip_cortex THEN Range(structures_left_right)
  ELSE Range(structures_left_right) \cup Range(cortex_2d_left_right)

\* C7: every left and right member of a lateral pair used with a skip-cortex
\* setting is a key of the table the pipeline produces with that setting.
C7_PairsAreKeys ==
  pc = "returned" =>
    \A p \in DeclaredPairs(options.skipcortex) :
      p[1] \in DOMAIN evMat /\ p[2] \in DOMAIN evMat

\* C8: a call of the asymmetry function that returns gives a map with exactly
\* one entry per declared pair, keyed left_right: 12 with skip_cortex, those
\* and the 2 cortical ones (14) without, in every call of a sequence of calls.
C8_OneEntryPerPair ==
  (lastAsym.who # "none" /\ lastAsym.exc = "none") =>
    /\ DOMAIN lastAsym.dst = {pair_key(p) : p \in DeclaredPairs(lastAsym.skip_cortex)}
    /\ Cardinality(DOMAIN lastAsym.dst) = IF lastAsym.skip_cortex THEN 12 ELSE 14

\* C8 witness: the second call of a sequence returned the 12 subcortical
\* entries on a table with the cortical surfaces, after a call before it.
C8_Witness ==
  /\ calls = 2
  /\ lastAsym.who = "caller"
  /\ lastAsym.exc = "none"
  /\ lastAsym.skip_cortex
  /\ ~options.skipcortex
  /\ Cardinality(DOMAIN lastAsym.dst) = 12

C10_CleanMesh ==
  mstage \in {"cleaned", "error"} =>
    /\ mstage = "cleaned"
    /\ connected_components(mv, mt).n = 1
    /\ \A i \in Vertices(mv) : \E k \in 1..Len(mt) : i \in Corners(mt[k])
    /\ \A k \in 1..Len(mt) : Corners(mt[k]) \subseteq Vertices(mv)

\* C10 witness: a raw mesh of two triangles in more than one component was
\* cleaned down to fewer vertices and fewer triangles.
C10_Witness ==
  /\ mstage = "cleaned"
  /\ mraw.v = 6
  /\ Len(mraw.t) = 2
  /\ connected_components(mraw.v, mraw.t).n > 1
  /\ mv < mraw.v
  /\ Len(mt) < Len(mraw.t)

\* the components of the raw mesh, as sets of vertices
RawComponents == {Closure(mraw.t, {i}) : i \in Vertices(mraw.v)}

\* the component of the raw mesh with the most vertices, among those with
\* the most the one holding the lowest vertex index
RawLargest ==
  CHOOSE C \in RawComponents :
    \A D \in RawComponents :
      \/ Cardinality(D) < Cardinality(C)
      \/ Cardinality(D) = Cardinality(C) /\ SetMin(C) <= SetMin(D)

\* C11: of a raw mesh with more than one component the cleaning step keeps
\* exactly the triangles of the component with the most vertices, the one
\* with the lowest vertex index when several have the most; two disjoint
\* unit cubes are cleaned to 8 vertices and the 12 triangles of the first.
C11_KeepsLargest ==
  /\ (mpass = 0 /\ mstage = "largest" /\ Cardinality(RawComponents) > 1) =>
       mt = SelectSeq(mraw.t, LAMBDA tri : Corners(tri) \subseteq RawLargest)
  /\ (mpass = 1 /\ mstage = "cleaned" /\ Cardinality(RawComponents) > 1) =>
       Len(mt) = Cardinality({k \in 1..Len(mraw.t) :
                                Corners(mraw.t[k]) \subseteq RawLargest})
  /\ (mpass = 1 /\ mstage = "cleaned" /\ mraw = TwoCubes) =>
       mv = 8 /\ Len(mt) = 12 /\ mt = CubeTrias

\* C11 witness: the two cubes were cleaned to the first cube.
C11_Witness ==
  /\ mstage = "cleaned"
  /\ mraw = TwoCubes
  /\ mv = 8
  /\ mt = CubeTrias

\* C12: cleaning a mesh that came out of the cleaning step gives the same
\* mesh: the same number of vertices and the same triangles.
C12_Idempotent ==
  (mstage = "cleaned" /\ mpass >= 2) => mv = mprev.v /\ mt = mprev.t

\* C12 witness: a mesh that lost vertices and triangles in its first pass has
\* been through a second pass.
C12_Witness ==
  /\ mstage = "cleaned"
  /\ mpass = 2
  /\ mv < mraw.v
  /\ Len(mt) < Len(mraw.t)
  /\ mv = mprev.v

\* C13: the mask is 1 at a voxel exactly when the voxel's label is one of
\* the codes asked for and 0 otherwise; the mask of several codes is the
\* voxel-wise OR of the masks of the single codes; the labeled volume is as
\* it was loaded.
C13_Mask ==
  bstage = "binarized" =>
    /\ DOMAIN aseg_data_bin = DOMAIN aseg_data
    /\ \A x \in DOMAIN aseg_data :
         /\ aseg_data_bin[x] \in {0, 1}
         /\ aseg_data_bin[x] = 1 <=> \E c \in indices : aseg_data[x] = int(c)
         /\ aseg_data_bin[x] = 1 <=>
              \E c \in indices : isin(aseg_data, indices_num({c}))[x] = 1
    /\ aseg_data = aseg_loaded

\* C13 witness: a mask of two merged codes with a voxel of each code and a
\* voxel of neither.
C13_Witness ==
  /\ bstage = "binarized"
  /\ Cardinality(indices) = 2
  /\ \E x \in Voxels, y \in Voxels, z \in Voxels :
       /\ aseg_data[x] # aseg_data[y]
       /\ aseg_data_bin[x] = 1
       /\ aseg_data_bin[y] = 1
       /\ aseg_data_bin[z] = 0

\* the sum of row i of a matrix
RECURSIVE RowSumTo(_, _, _)
RowSumTo(M, i, j) ==
  IF j < 0 THEN ZeroVal ELSE ValAdd(M.val[<< i, j >>], RowSumTo(M, i, j - 1))

RowSum(M, i) == RowSumTo(M, i, M.shape[2] - 1)

\* C14: every row of the stiffness matrix A sums to 0, the diagonal entry
\* being minus the sum of the other entries of its row; stated for every
\* mesh of the model, the closed single-component cube among them.
C14_RowSumsZero ==
  fstage = "returned" =>
    \A i \in 0..(A.shape[1] - 1) : RowSum(A, i) = ZeroVal

\* C14 witness: the matrix of the closed cube was returned, with an entry
\* that is not zero in its first row.
C14_Witness ==
  /\ fstage = "returned"
  /\ fem_t = CubeTrias
  /\ A.val[<< 0, 0 >>] # ZeroVal

Symmetric(M) ==
  /\ M.shape[1] = M.shape[2]
  /\ \A i \in 0..(M.shape[1] - 1), j \in 0..(M.shape[2] - 1) :
       << j, i >> \in DOMAIN M.val /\ M.val[<< i, j >>] = M.val[<< j, i >>]

\* C15: for both values of lump the matrices A and B returned are symmetric.
C15_Symmetric ==
  fstage = "returned" => Symmetric(A) /\ Symmetric(B)

\* C15 witness: matrices of two triangles were returned whose A and B hold
\* an off-diagonal entry that is not zero.
C15_Witness ==
  /\ fstage = "returned"
  /\ ~lump
  /\ Len(fem_t) = 2
  /\ \E i \in 0..(A.shape[1] - 1), j \in 0..(A.shape[2] - 1) :
       i # j /\ A.val[<< i, j >>] # ZeroVal /\ B.val[<< i, j >>] # ZeroVal

\* vertices i and j are corners of a common triangle of t (an edge of the mesh)
MeshEdge(t, i, j) ==
  i # j /\ \E k \in 1..Len(t) : {i, j} \subseteq Corners(t[k])

\* the squared length of the edge between vertices i and j
EdgeLen2(i, j) ==
  VDot(VMinus(Coord(i), Coord(j)), VMinus(Coord(i), Coord(j)))

\* C16 as claimed: for the unit cube with lump = False, A[i][j] # 0 for
\* i # j exactly when i and j are joined by a mesh edge, the face diagonals
\* included.
C16_PatternIsAdjacency ==
  (fstage = "returned" /\ fem_t = CubeTrias /\ ~lump) =>
    \A i \in 0..7, j \in 0..7 :
      i # j => (A.val[<< i, j >>] # ZeroVal <=> MeshEdge(fem_t, i, j))

\* C16 amended: for the unit cube with lump = False, A[i][j] # 0 for i # j
\* exactly when i and j are joined by a mesh edge that is an edge of the
\* cube (length 1); the entries of the face diagonals, which lie opposite
\* right angles only, are 0, as are those of pairs not joined by an edge.
C16_PatternIsCubeEdges ==
  (fstage = "returned" /\ fem_t = CubeTrias /\ ~lump) =>
    \A i \in 0..7, j \in 0..7 :
      i # j => (A.val[<< i, j >>] # ZeroVal
                  <=> (MeshEdge(fem_t, i, j) /\ EdgeLen2(i, j) = 1))

\* C16 witness: the matrix of the cube holds a cube edge (0, 1) with a value
\* that is not zero and a face diagonal (0, 2) with the value zero.
C16_Witness ==
  /\ fstage = "returned"
  /\ fem_t = CubeTrias
  /\ ~lump
  /\ A.val[<< 0, 1 >>] # ZeroVal
  /\ MeshEdge(fem_t, 0, 2)
  /\ A.val[<< 0, 2 >>] = ZeroVal

\* C17: in both lump modes A and B are n x n with n the number of vertices
\* in v.
C17_Shape ==
  fstage = "returned" =>
    A.shape = << fem_v, fem_v >> /\ B.shape = << fem_v, fem_v >>

\* ------------------------------------------------------------------ C19
\* C19: the list _get_ev returns is [area, volume, eigenvalues...]; its first
\* eigenvalue is "0" when the magnitude of the one read is within 1e-16 of
\* zero (10 units of 1e-17) and is the one read otherwise; every other
\* eigenvalue is the one read.
C19_Snap ==
  estage = "returned" =>
    /\ Len(evret) = Len(evfile.evals) + 2
    /\ evret[1] = evfile.area
    /\ evret[2] = evfile.volume
    /\ evret[3] = (IF abs(float(evfile.evals[1])) <= 10 THEN ZeroText
                   ELSE evfile.evals[1])
    /\ \A i \in 2..Len(evfile.evals) : evret[i + 2] = evfile.evals[i]

\* ------------------------------------------------------------------ C20
\* C20: with norm = "none" and reweighting off, entries 2.. of the result
\* vector of a structure that was processed without exception are exactly the
\* eigenvalues the solver returned for it, same values in the same order.
C20_IdentityWhenNone ==
  (version \in {"legacy", "refactor"} /\ options.norm = "none" /\ ~options.rwt) =>
    \A s \in Processed :
      Succeeded(s) =>
        Slice2(evMat[s]) = SolverEigenvalues(s, options.num, inputs[s].quirk)

\* ------------------------------------------------------------------ C21
\* the calls the try body of structure s made
CallLog(s) ==
  try_body(IF version = "current" THEN "refactor" ELSE version,
           options, s, inputs[s]).log

\* the structures whose try body was entered
Attempted == DOMAIN inputs

\* C21: in every run of the per-structure computation, the mesh is
\* consistently oriented whenever normalize_ev, area or volume is called on
\* it: a mesh read unoriented is oriented first.
C21_OrientedFirst ==
  version \in {"legacy", "refactor"} =>
    \A s \in Attempted :
      \A k \in 1..Len(CallLog(s)) :
        CallLog(s)[k].call \in {"normalize_ev", "area", "volume"} =>
          CallLog(s)[k].oriented
\* ------------------------------------------------------------------ C22
\* the labels a structure's own descriptor names: those of its list entry,
\* none for a cortical surface
OwnLabels(task) == IF task.kind = "aseg" THEN labels[task.id] ELSE << >>

\* C22: the processing of a structure reads no value of the options dict that
\* the processing of another structure left behind, and the surface its
\* result is computed of is made of its own labels only.
C22_NoSharedState ==
  \A k \in 1..Len(evmat) :
    /\ evmat[k].surface.reads.asegid \in {evmat[k].task, NoTask}
    /\ evmat[k].surface.reads.outsurf = evmat[k].task
    /\ evmat[k].surface.labels = OwnLabels(evmat[k].task)
\* ------------------------------------------------------------------ C23
\* C23: when run_brainprint is called with options=None and keyword
\* arguments, the options dict it goes on with holds exactly the keyword
\* values, whatever the command line of the process is (after _check_options
\* a missing outdir is the default one).
C23_KeywordsUsed ==
  (entry = "run_brainprint" /\ sstage \in {"options", "checked"}) =>
    /\ [ropts EXCEPT !.outdir = None] =
         [options_of_keywords(kwargs) EXCEPT !.outdir = None]
    /\ (sstage = "options" \/ kwargs.outdir # None => ropts.outdir = kwargs.outdir)

\* ------------------------------------------------------------------ C25
\* C25: create_output_paths called with neither a subject directory nor a
\* destination raises ValueError and creates no directory.
C25_ValueErrorNoDirs ==
  (/\ entry = "create_output_paths"
   /\ cargs.subject_dir = None
   /\ cargs.destination = None
   /\ sstage # "called") =>
    /\ sstage = "raised"
    /\ sexc = "ValueError"
    /\ tree = tree_called

\* ------------------------------------------------------------------ C30
\* the setup step returned normally
SetupReturned == sstage \in {"checked", "returned"}

\* C30: whenever the setup step has returned normally, the output directory
\* and its subdirectories surfaces and temp exist, whatever existed before;
\* a second run of the step changes nothing.
C30_DirsExist ==
  SetupReturned =>
    /\ {".", "surfaces", "temp"} \subseteq tree
    /\ (nsetup > 1 => tree = tree_first)
\* ------------------------------------------------------------------ C24
\* C24: read_vtk raises RuntimeError whenever the mesh reader raises or
\* returns None and returns the reader's mesh otherwise; no other exception
\* leaves it.
C24_RuntimeErrorOnly ==
  vstage \in {"returned", "raised"} =>
    IF reader.kind = "mesh"
    THEN vstage = "returned" /\ vret = reader.mesh
    ELSE vstage = "raised" /\ vexc = "RuntimeError"
\* ------------------------------------------------------------------ C27
\* C27: for every mesh with at least one triangle, after the substitution
\* the value vol of every triangle is strictly positive, so A12, A23 and A31
\* are never computed by a division by zero.
C27_VolPositive ==
  wstage = "substituted" =>
    \A i \in 1..Len(vol) : \E q \in VolKeys : vol[i].num[q] > 0
\* ------------------------------------------------------------------ C28
\* the sum of vol / 12 over the triangles of t that vertex i is a corner of
RECURSIVE IncidentMass(_, _)
IncidentMass(t, i) ==
  IF t = << >> THEN ZeroVal
  ELSE ValAdd(IF i \in Corners(Head(t)) THEN Unit(tria_terms(Head(t)).q, 4)
              ELSE ZeroVal,
              IncidentMass(Tail(t), i))

\* C28: the lumped mass matrix is diagonal, and its diagonal entry of vertex
\* i is the sum of row i of the mass matrix of the same mesh that is not
\* lumped, both being the sum of vol / 12 over the triangles at i.
C28_LumpingKeepsRowSums ==
  (fstage = "returned" /\ lump) =>
    LET unlumped == computeABtria(fem_t, FALSE).B
    IN /\ B.shape = unlumped.shape
       /\ \A i \in 0..(B.shape[1] - 1), j \in 0..(B.shape[2] - 1) :
            i # j => B.val[<< i, j >>] = ZeroVal
       /\ \A i \in 0..(B.shape[1] - 1) :
            /\ B.val[<< i, i >>] = RowSum(unlumped, i)
            /\ B.val[<< i, i >>] = IncidentMass(fem_t, i)

\* C28 witness: the lumped mass matrix of the cube was returned; the mass that
\* is not lumped has off-diagonal entries, and vertex 0 has several triangles.
C28_Witness ==
  /\ fstage = "returned"
  /\ lump
  /\ fem_t = CubeTrias
  /\ computeABtria(fem_t, FALSE).B.val[<< 0, 1 >>] # ZeroVal
  /\ B.val[<< 0, 0 >>] # Unit(1, 4)
\* ------------------------------------------------------------------ C26
\* C26: whenever sparse Cholesky cannot be used, because sksparse cannot be
\* imported or because the shifted matrix is not positive definite, the LU
\* factorisation is the one used, and no exception of the Cholesky
\* factorisation leaves laplaceTria.
C26_LUFallback ==
  (/\ qstage \in {"solved", "raised"}
   /\ ~sksparse \/ shifted_singular(computeABtria(sol_t, sol_lump))) =>
    backend = "lu"
\* ------------------------------------------------------------------ C29
\* the place of a call in the order solve, orient, normalize, reweight,
\* prepend
CallRank(name) ==
  CASE name = "import_vtk" -> 0
    [] name = "compute_shapedna" -> 1
    [] name = "orient_" -> 2
    [] name = "normalize_ev" -> 3
    [] name = "reweight_ev" -> 4
    [] name = "area" -> 5
    [] OTHER -> 6

\* The structures whose try body was entered last: the one the loop went
\* through last and the one whose exception ended the run.  The log of a
\* structure never changes once its iteration is over, and every structure is
\* among these in the state its iteration ends in.
LatestAttempted ==
  Attempted \cap {surfaces[i] : i \in {idx, idx + 1} \cap (1..Len(surfaces))}

\* C29: for every structure the calls of the try body are made in the order
\* solve, normalization, reweighting, area and volume; reweight_ev is given
\* the normalized eigenvalues when norm is surface, volume or geometry and
\* the solver's eigenvalues otherwise; with any other norm normalize_ev is
\* not called and nothing is raised on that account.
C29_StepOrder ==
  version \in {"legacy", "refactor"} =>
    \A s \in LatestAttempted :
      LET log == CallLog(s)
          solved == SolverEigenvalues(s, options.num, inputs[s].quirk)
          normalizes == options.norm \in {"surface", "volume", "geometry"}
      IN /\ \A j, k \in 1..Len(log) :
              j < k => CallRank(log[j].call) < CallRank(log[k].call)
         /\ \A k \in 1..Len(log) :
              log[k].call = "reweight_ev" =>
                /\ options.rwt
                /\ log[k].evals = IF normalizes
                                  THEN normalize_ev(s, solved, options.norm)
                                  ELSE solved
         /\ \A k \in 1..Len(log) :
              log[k].call = "normalize_ev" => normalizes /\ log[k].evals = solved
         /\ (~normalizes /\ inputs[s].raises = "none" /\ inputs[s].oriented) =>
              /\ Succeeded(s)
              /\ Slice2(Computed(s)) = IF options.rwt THEN reweight_ev(solved)
                                       ELSE solved

\* C29 witness: a run has returned in which a structure's eigenvalues, not
\* all zero, were solved, normalized, reweighted and prepended with area and
\* volume.
C29_Witness ==
  /\ pc = "returned"
  /\ version \in {"legacy", "refactor"}
  /\ options.rwt
  /\ options.norm = "surface"
  /\ options.num > 1
  /\ \E s \in Processed :
       /\ Succeeded(s)
       /\ Len(CallLog(s)) = 6
       /\ CallLog(s)[3].call = "normalize_ev"
       /\ CallLog(s)[4].call = "reweight_ev"
       /\ CallLog(s)[4].evals # CallLog(s)[3].evals
       /\ evMat[s] = Computed(s)

====
